---- MODULE Spec2Model ----
(***************************************************************************)
(* A model of the Mini SQL compiler: the tokenizer (src/src/lexer.cpp),    *)
(* the recursive-descent parser (src/src/parser.cpp), the semantic         *)
(* analyzer (src/src/semantic.cpp), the executor and the data store, and   *)
(* the pipeline compileAndExecute (src/src/main.cpp) that chains them.     *)
(*                                                                         *)
(* A character is a one-character string, a std::string is a sequence of   *)
(* characters.  Offsets into a string are 0-based as in the C++ code; the  *)
(* character at offset i of s is s[i + 1].                                 *)
(***************************************************************************)
EXTENDS Integers, Sequences, FiniteSets, TLC

VARIABLES
    pc,               \* position of the running operation
    query,            \* the source text handed to compileAndExecute / Lexer
    lexer,            \* the Lexer object (Null before it is constructed)
    parser,           \* the Parser object (Null before it is constructed)
    parseTree,        \* compileAndExecute's parseTree (Null is nullptr)
    semanticAnalyzer, \* the SemanticAnalyzer object (Null before constructed)
    errorHandler,     \* the ErrorHandler's error list
    syntaxValid,      \* compileAndExecute's local flag
    semanticValid,    \* compileAndExecute's local flag
    executed,         \* the QueryResult of Executor::execute (Null: not invoked)
    globalDataStore,  \* table name -> sequence of rows
    calls             \* number of compileAndExecute calls started

vars ==
    <<pc, query, lexer, parser, parseTree, semanticAnalyzer, errorHandler,
      syntaxValid, semanticValid, executed, globalDataStore, calls>>

Null == [null |-> TRUE]

(***************************************************************************)
(* Characters                                                              *)
(***************************************************************************)
NUL == ""

LowerLetters ==
    <<"a","b","c","d","e","f","g","h","i","j","k","l","m",
      "n","o","p","q","r","s","t","u","v","w","x","y","z">>

UpperLetters ==
    <<"A","B","C","D","E","F","G","H","I","J","K","L","M",
      "N","O","P","Q","R","S","T","U","V","W","X","Y","Z">>

Digits == {"0","1","2","3","4","5","6","7","8","9"}

Range(s) == {s[i] : i \in DOMAIN s}

isalpha(c) == c \in Range(LowerLetters) \cup Range(UpperLetters)

isdigit(c) == c \in Digits

isalnum(c) == isalpha(c) \/ isdigit(c)

toupper(c) ==
    IF c \in Range(LowerLetters)
    THEN UpperLetters[CHOOSE i \in DOMAIN LowerLetters : LowerLetters[i] = c]
    ELSE c

tolower(c) ==
    IF c \in Range(UpperLetters)
    THEN LowerLetters[CHOOSE i \in DOMAIN UpperLetters : UpperLetters[i] = c]
    ELSE c

\* std::transform(s.begin(), s.end(), s.begin(), ::toupper)
ToUpperStr(s) == [i \in DOMAIN s |-> toupper(s[i])]

\* mutant: names are compared as written
ToLowerStr_Identity(s) == s

\* std::transform(s.begin(), s.end(), s.begin(), ::tolower)
ToLowerStr(s) == [i \in DOMAIN s |-> tolower(s[i])]

\* std::string::substr(pos, len) for pos <= size: at most len characters
substr(s, pos, len) ==
    SubSeq(s, pos + 1, IF pos + len > Len(s) THEN Len(s) ELSE pos + len)

(***************************************************************************)
(* Tokens and diagnostics (src/include/common.h)                           *)
(***************************************************************************)
Token(t, v, l, c) == [type |-> t, value |-> v, line |-> l, column |-> c]

\* A message is its fixed text and the strings spliced into it.
Msg(text, args) == [text |-> text, args |-> args]

CompilerError(t, msg, l, c) ==
    [type |-> t, message |-> msg, line |-> l, column |-> c]

(***************************************************************************)
(* Lexer (src/src/lexer.cpp)                                               *)
(***************************************************************************)
keywords ==
    { [text |-> <<"S","E","L","E","C","T">>, type |-> "KEYWORD_SELECT"],
      [text |-> <<"F","R","O","M">>,         type |-> "KEYWORD_FROM"],
      [text |-> <<"W","H","E","R","E">>,     type |-> "KEYWORD_WHERE"],
      [text |-> <<"A","N","D">>,             type |-> "KEYWORD_AND"],
      [text |-> <<"O","R">>,                 type |-> "KEYWORD_OR"],
      [text |-> <<"I","N","S","E","R","T">>, type |-> "KEYWORD_INSERT"],
      [text |-> <<"I","N","T","O">>,         type |-> "KEYWORD_INTO"],
      [text |-> <<"V","A","L","U","E","S">>, type |-> "KEYWORD_VALUES"],
      [text |-> <<"U","P","D","A","T","E">>, type |-> "KEYWORD_UPDATE"],
      [text |-> <<"S","E","T">>,             type |-> "KEYWORD_SET"],
      [text |-> <<"D","E","L","E","T","E">>, type |-> "KEYWORD_DELETE"],
      [text |-> <<"C","R","E","A","T","E">>, type |-> "KEYWORD_CREATE"],
      [text |-> <<"T","A","B","L","E">>,     type |-> "KEYWORD_TABLE"] }

\* Lexer::Lexer(source)
Lexer(src) ==
    [source |-> src, start |-> 0, current |-> 0, line |-> 1, column |-> 1,
     startColumn |-> 1, tokens |-> <<>>, errors |-> <<>>]

isAtEnd(L) == L.current >= Len(L.source)

\* the character advance() returns
advanceChar(L) == L.source[L.current + 1]

advance(L) == [L EXCEPT !.column = @ + 1, !.current = @ + 1]

peek(L) == IF isAtEnd(L) THEN NUL ELSE L.source[L.current + 1]

\* mutant: the character after the next always counts as a digit
peekNext_AlwaysDigit(L) == "0"

peekNext(L) ==
    IF L.current + 1 >= Len(L.source) THEN NUL ELSE L.source[L.current + 2]

\* match(expected): whether it matched, and the lexer afterwards
matches(L, expected) == ~isAtEnd(L) /\ L.source[L.current + 1] = expected

match(L, expected) ==
    IF matches(L, expected)
    THEN [L EXCEPT !.current = @ + 1, !.column = @ + 1]
    ELSE L

\* addToken(type, value)
addTokenValue(L, type, value) ==
    [L EXCEPT !.tokens = Append(@, Token(type, value, L.line, L.startColumn))]

\* addToken(type)
addToken(L, type) ==
    addTokenValue(L, type, substr(L.source, L.start, L.current - L.start))

reportError(L, message) ==
    [L EXCEPT !.errors =
        Append(@, CompilerError("LEXICAL_ERROR", message, L.line, L.startColumn))]

RECURSIVE scanIdentifierLoop(_)
scanIdentifierLoop(L) ==
    IF ~isAtEnd(L) /\ (isalnum(peek(L)) \/ peek(L) = "_")
    THEN scanIdentifierLoop(advance(L))
    ELSE L

\* mutant: the keyword table is looked up with the text as written
scanIdentifier_CaseSensitive(L0) ==
    LET L    == scanIdentifierLoop(L0)
        text == substr(L.source, L.start, L.current - L.start)
    IN  IF \E k \in keywords : k.text = text
        THEN addTokenValue(L, (CHOOSE k \in keywords : k.text = text).type, text)
        ELSE addTokenValue(L, "IDENTIFIER", text)

\* mutant: an identifier's value is the upper-cased text too
scanIdentifier_UpperIdent(L0) ==
    LET L         == scanIdentifierLoop(L0)
        text      == substr(L.source, L.start, L.current - L.start)
        upperText == ToUpperStr(text)
    IN  IF \E k \in keywords : k.text = upperText
        THEN addTokenValue(L, (CHOOSE k \in keywords : k.text = upperText).type,
                           upperText)
        ELSE addTokenValue(L, "IDENTIFIER", upperText)

scanIdentifier(L0) ==
    LET L         == scanIdentifierLoop(L0)
        text      == substr(L.source, L.start, L.current - L.start)
        upperText == ToUpperStr(text)
    IN  IF \E k \in keywords : k.text = upperText
        THEN addTokenValue(L, (CHOOSE k \in keywords : k.text = upperText).type,
                           upperText)
        ELSE addTokenValue(L, "IDENTIFIER", text)

RECURSIVE scanDigits(_)
scanDigits(L) ==
    IF ~isAtEnd(L) /\ isdigit(peek(L)) THEN scanDigits(advance(L)) ELSE L

scanNumber(L0) ==
    LET L1 == scanDigits(L0)
        L2 == IF peek(L1) = "." /\ isdigit(peekNext(L1))
              THEN scanDigits(advance(L1))
              ELSE L1
    IN  addTokenValue(L2, "NUMBER",
                      substr(L2.source, L2.start, L2.current - L2.start))

RECURSIVE scanStringLoop(_)
scanStringLoop(L) ==
    IF ~isAtEnd(L) /\ peek(L) # "'"
    THEN scanStringLoop(
            advance(IF peek(L) = "\n"
                    THEN [L EXCEPT !.line = @ + 1, !.column = 0]
                    ELSE L))
    ELSE L

\* mutant: the unterminated-string diagnostic is reported like any other, at
\* the line the scan has reached
scanString_ErrorAtCurrentLine(L0) ==
    LET L1 == scanStringLoop(L0)
    IN  IF isAtEnd(L1)
        THEN reportError(L1, Msg("Unterminated string literal", <<>>))
        ELSE LET L2 == advance(L1)
             IN  addTokenValue(L2, "STRING_LITERAL",
                    substr(L2.source, L2.start + 1, L2.current - L2.start - 2))

scanString(L0) ==
    LET stringStartLine == L0.line
        stringStartCol  == L0.startColumn
        L1 == scanStringLoop(L0)
    IN  IF isAtEnd(L1)
        THEN [L1 EXCEPT !.errors =
                Append(@, CompilerError("LEXICAL_ERROR",
                                        Msg("Unterminated string literal", <<>>),
                                        stringStartLine, stringStartCol))]
        ELSE LET L2 == advance(L1)
             IN  addTokenValue(L2, "STRING_LITERAL",
                    substr(L2.source, L2.start + 1, L2.current - L2.start - 2))

\* the  case '!':  branch of scanToken
scanBang(L) ==
    IF matches(L, "=")
    THEN addTokenValue(match(L, "="), "OP_NOT_EQUALS", <<"!", "=">>)
    ELSE reportError(L, Msg("Unexpected character '!', did you mean '!='?", <<>>))

\* mutant: '<' is a token of its own whatever follows it
scanLess_NotGreedy(L) == addToken(L, "OP_LESS_THAN")

\* the  case '<':  branch of scanToken
scanLess(L) ==
    IF matches(L, "=")
    THEN addTokenValue(match(L, "="), "OP_LESS_EQUALS", <<"<", "=">>)
    ELSE addToken(L, "OP_LESS_THAN")

\* the  case '>':  branch of scanToken
scanGreater(L) ==
    IF matches(L, "=")
    THEN addTokenValue(match(L, "="), "OP_GREATER_EQUALS", <<">", "=">>)
    ELSE addToken(L, "OP_GREATER_THAN")

\* mutant: an unknown character is reported and put back
scanDefault_Unread(L, c) ==
    IF isalpha(c) \/ c = "_" THEN scanIdentifier(L)
    ELSE IF isdigit(c) THEN scanNumber(L)
    ELSE [reportError(L, Msg("Unexpected character", <<c>>))
            EXCEPT !.current = @ - 1, !.column = @ - 1]

\* mutant: an unknown character is skipped without a diagnostic
scanDefault_Silent(L, c) ==
    IF isalpha(c) \/ c = "_" THEN scanIdentifier(L)
    ELSE IF isdigit(c) THEN scanNumber(L)
    ELSE L

\* the  default:  branch of scanToken, c the character just consumed
scanDefault(L, c) ==
    IF isalpha(c) \/ c = "_" THEN scanIdentifier(L)
    ELSE IF isdigit(c) THEN scanNumber(L)
    ELSE reportError(L, Msg("Unexpected character", <<c>>))

scanToken(L0) ==
    LET c == advanceChar(L0)
        L == advance(L0)
    IN  CASE c \in {" ", "\r", "\t"} -> L
          [] c = "\n" -> [L EXCEPT !.line = @ + 1, !.column = 1]
          [] c = "*"  -> addToken(L, "OP_STAR")
          [] c = ","  -> addToken(L, "OP_COMMA")
          [] c = ";"  -> addToken(L, "OP_SEMICOLON")
          [] c = "("  -> addToken(L, "OP_LPAREN")
          [] c = ")"  -> addToken(L, "OP_RPAREN")
          [] c = "="  -> addToken(L, "OP_EQUALS")
          [] c = "!"  -> scanBang(L)
          [] c = "<"  -> scanLess(L)
          [] c = ">"  -> scanGreater(L)
          [] c = "'"  -> scanString(L)
          [] OTHER    -> scanDefault(L, c)

\* one iteration of the loop of tokenize()
tokenizeStep(L) ==
    scanToken([L EXCEPT !.start = L.current, !.startColumn = L.column])

\* mutant: the end-of-input token is appended only to an error-free scan
tokenizeEnd_OnlyOnSuccess(L) ==
    IF L.errors = <<>>
    THEN [L EXCEPT !.tokens = Append(@, Token("END_OF_INPUT", <<>>, L.line, L.column))]
    ELSE L

\* the end of tokenize(): the end-of-input token
tokenizeEnd(L) ==
    [L EXCEPT !.tokens = Append(@, Token("END_OF_INPUT", <<>>, L.line, L.column))]

RECURSIVE tokenizeLoop(_)
tokenizeLoop(L) == IF isAtEnd(L) THEN L ELSE tokenizeLoop(tokenizeStep(L))

\* Lexer::tokenize(), the lexer afterwards; its tokens are the result
tokenize(L) ==
    tokenizeEnd(tokenizeLoop([L EXCEPT !.tokens = <<>>, !.errors = <<>>]))

LexerHasErrors(L) == L.errors # <<>>

(***************************************************************************)
(* Parse tree (src/include/common.h) and Parser (src/src/parser.cpp)       *)
(***************************************************************************)
\* std::make_shared<ParseTreeNode>(type, value)
ParseTreeNode(t, v) == [type |-> t, value |-> v, children |-> <<>>]

\* mutant: a child is put before the children the node has
addChild_Prepend(node, child) == [node EXCEPT !.children = <<child>> \o @]

addChild(node, child) == [node EXCEPT !.children = Append(@, child)]

\* Parser::Parser(tokens); moves is the history of the calls of advance():
\* the cursor before and after each
Parser(toks) == [tokens |-> toks, current |-> 0, errors |-> <<>>, moves |-> <<>>]

\* what a parsing function leaves: the parser, and the node it returns
Parsed(P, node) == [p |-> P, node |-> node]

\* Parser::peek
parserPeek(P) == P.tokens[P.current + 1]

\* Parser::isAtEnd
parserIsAtEnd(P) == parserPeek(P).type = "END_OF_INPUT"

\* Parser::advance, the parser afterwards; it returns the token it stepped
\* over, which is parserPeek of the parser before (it is called only when
\* check() has just held)
parserAdvance(P) ==
    LET to == IF ~parserIsAtEnd(P) THEN P.current + 1 ELSE P.current
    IN  [P EXCEPT !.current = to,
                  !.moves = Append(@, [from |-> P.current, to |-> to])]

check(P, type) == IF parserIsAtEnd(P) THEN FALSE ELSE parserPeek(P).type = type

\* Parser::match, the parser afterwards; it returns check(P, type)
parserMatch(P, type) == IF check(P, type) THEN parserAdvance(P) ELSE P

\* mutant: the diagnostic is anchored at the token before the current one
error_AtPrevious(P, message) ==
    LET token == P.tokens[IF P.current = 0 THEN 1 ELSE P.current]
    IN  [P EXCEPT !.errors =
            Append(@, CompilerError("SYNTAX_ERROR", Msg(message, <<token.value>>),
                                    token.line, token.column))]

\* Parser::error
error(P, message) ==
    LET token == parserPeek(P)
    IN  [P EXCEPT !.errors =
            Append(@, CompilerError("SYNTAX_ERROR", Msg(message, <<token.value>>),
                                    token.line, token.column))]

\* mutant: after the diagnostic the token at the cursor is skipped, whatever
\* it is
consume_Skip(P, type, message) ==
    IF check(P, type) THEN parserAdvance(P)
    ELSE [error(P, message)
            EXCEPT !.current = @ + 1,
                   !.moves = Append(@, [from |-> P.current, to |-> P.current + 1])]

\* Parser::consume, the parser afterwards (no caller uses the token returned)
consume(P, type, message) ==
    IF check(P, type) THEN parserAdvance(P) ELSE error(P, message)

\* check(IDENTIFIER) || check(NUMBER) || check(STRING_LITERAL)
checkValue(P) ==
    check(P, "IDENTIFIER") \/ check(P, "NUMBER") \/ check(P, "STRING_LITERAL")

RECURSIVE columnListLoop(_, _)
\* while (match(OP_COMMA)) of parseColumnList
columnListLoop(P, columnListNode) ==
    IF check(P, "OP_COMMA")
    THEN LET P1 == parserAdvance(P)
         IN  IF ~check(P1, "IDENTIFIER")
             THEN Parsed(error(P1, "Expected column name after ','"), Null)
             ELSE columnListLoop(parserAdvance(P1),
                    addChild(columnListNode,
                             ParseTreeNode("COLUMN", parserPeek(P1).value)))
    ELSE Parsed(P, columnListNode)

parseColumnList(P) ==
    LET columnListNode == ParseTreeNode("COLUMN_LIST", <<>>)
    IN  IF check(P, "OP_STAR")
        THEN Parsed(parserAdvance(P),
                    addChild(columnListNode, ParseTreeNode("COLUMN", <<"*">>)))
        ELSE IF ~check(P, "IDENTIFIER")
        THEN Parsed(error(P, "Expected column name or '*' after SELECT"), Null)
        ELSE columnListLoop(parserAdvance(P),
                addChild(columnListNode,
                         ParseTreeNode("COLUMN", parserPeek(P).value)))

parseSelectClause(P) ==
    IF ~check(P, "KEYWORD_SELECT")
    THEN Parsed(error(P, "Expected 'SELECT' keyword at beginning of query"), Null)
    ELSE LET selectNode == ParseTreeNode("SELECT_CLAUSE", <<"S","E","L","E","C","T">>)
             columnList == parseColumnList(parserAdvance(P))
         IN  IF columnList.node # Null
             THEN Parsed(columnList.p, addChild(selectNode, columnList.node))
             ELSE Parsed(columnList.p, Null)

parseFromClause(P) ==
    IF ~check(P, "KEYWORD_FROM")
    THEN Parsed(error(P, "Expected 'FROM' keyword"), Null)
    ELSE LET P1       == parserAdvance(P)
             fromNode == ParseTreeNode("FROM_CLAUSE", <<"F","R","O","M">>)
         IN  IF ~check(P1, "IDENTIFIER")
             THEN Parsed(error(P1, "Expected table name after 'FROM'"), Null)
             ELSE Parsed(parserAdvance(P1),
                    addChild(fromNode,
                             ParseTreeNode("TABLE_NAME", parserPeek(P1).value)))

\* check(OP_EQUALS) || ... || check(OP_GREATER_EQUALS)
checkRelOp(P) ==
    \E t \in {"OP_EQUALS", "OP_NOT_EQUALS", "OP_LESS_THAN", "OP_LESS_EQUALS",
              "OP_GREATER_THAN", "OP_GREATER_EQUALS"} : check(P, t)

parseCondition(P) ==
    LET conditionNode == ParseTreeNode("CONDITION", <<>>)
    IN  IF ~check(P, "IDENTIFIER")
        THEN Parsed(error(P, "Expected column name in WHERE condition"), Null)
        ELSE
        LET P1 == parserAdvance(P)
            n1 == addChild(conditionNode, ParseTreeNode("COLUMN", parserPeek(P).value))
        IN  IF ~checkRelOp(P1)
            THEN Parsed(error(P1,
                   "Expected relational operator (=, !=, <, <=, >, >=) in condition"),
                   Null)
            ELSE
            LET P2 == parserAdvance(P1)
                n2 == addChild(n1, ParseTreeNode("OPERATOR", parserPeek(P1).value))
            IN  IF ~checkValue(P2)
                THEN Parsed(error(P2,
                       "Expected value (identifier, number, or string) in condition"),
                       Null)
                ELSE Parsed(parserAdvance(P2),
                       addChild(n2, ParseTreeNode("VALUE", parserPeek(P2).value)))

parseWhereClause(P) ==
    IF ~check(P, "KEYWORD_WHERE")
    THEN Parsed(P, Null)
    ELSE LET whereNode == ParseTreeNode("WHERE_CLAUSE", <<"W","H","E","R","E">>)
             condition == parseCondition(parserAdvance(P))
         IN  IF condition.node # Null
             THEN Parsed(condition.p, addChild(whereNode, condition.node))
             ELSE Parsed(condition.p, Null)

\* mutant: parseWhereClause is called whether or not WHERE is the current
\* token
optionalWhereThenSemicolon_Unguarded(P, queryNode, message) ==
    LET whereClause == parseWhereClause(P)
    IN  IF whereClause.node # Null
        THEN Parsed(consume(whereClause.p, "OP_SEMICOLON", message),
                    addChild(queryNode, whereClause.node))
        ELSE Parsed(whereClause.p, Null)

\* the tail shared by every statement: the optional WHERE clause, then the
\* semicolon; message is the semicolon's diagnostic
optionalWhereThenSemicolon(P, queryNode, message) ==
    IF check(P, "KEYWORD_WHERE")
    THEN LET whereClause == parseWhereClause(P)
         IN  IF whereClause.node # Null
             THEN Parsed(consume(whereClause.p, "OP_SEMICOLON", message),
                         addChild(queryNode, whereClause.node))
             ELSE Parsed(whereClause.p, Null)
    ELSE Parsed(consume(P, "OP_SEMICOLON", message), queryNode)

RECURSIVE valueListLoop(_, _)
\* while (match(OP_COMMA)) of parseValueList
valueListLoop(P, valueListNode) ==
    IF check(P, "OP_COMMA")
    THEN LET P1 == parserAdvance(P)
         IN  IF ~checkValue(P1)
             THEN Parsed(error(P1, "Expected value after ',' in VALUES list"), Null)
             ELSE valueListLoop(parserAdvance(P1),
                    addChild(valueListNode,
                             ParseTreeNode("VALUE", parserPeek(P1).value)))
    ELSE Parsed(P, valueListNode)

parseValueList(P) ==
    LET valueListNode == ParseTreeNode("VALUE_LIST", <<>>)
    IN  IF ~checkValue(P)
        THEN Parsed(error(P, "Expected value in VALUES list"), Null)
        ELSE valueListLoop(parserAdvance(P),
                addChild(valueListNode, ParseTreeNode("VALUE", parserPeek(P).value)))

RECURSIVE insertColumnLoop(_, _)
\* while (match(OP_COMMA)) of parseInsert
insertColumnLoop(P, columnList) ==
    IF check(P, "OP_COMMA")
    THEN LET P1 == parserAdvance(P)
         IN  IF ~check(P1, "IDENTIFIER")
             THEN Parsed(error(P1, "Expected column name after ','"), Null)
             ELSE insertColumnLoop(parserAdvance(P1),
                    addChild(columnList,
                             ParseTreeNode("COLUMN", parserPeek(P1).value)))
    ELSE Parsed(P, columnList)

\* parseInsert from  VALUES  on; insertNode holds the table and the columns
parseInsertValues(P, insertNode) ==
    IF ~check(P, "KEYWORD_VALUES")
    THEN Parsed(error(P, "Expected 'VALUES' keyword"), Null)
    ELSE
    LET P1 == consume(parserAdvance(P), "OP_LPAREN", "Expected '(' after VALUES")
        valueList == parseValueList(P1)
    IN  IF valueList.node = Null
        THEN Parsed(valueList.p, Null)
        ELSE
        LET P2 == consume(valueList.p, "OP_RPAREN", "Expected ')' after value list")
            P3 == consume(P2, "OP_SEMICOLON", "Expected ';' at end of INSERT statement")
        IN  Parsed(P3, addChild(insertNode, valueList.node))

parseInsert(P) ==
    LET insertNode == ParseTreeNode("INSERT_QUERY", <<>>)
    IN  IF ~check(P, "KEYWORD_INSERT")
        THEN Parsed(error(P, "Expected 'INSERT' keyword"), Null)
        ELSE
        LET P1 == parserAdvance(P)
        IN  IF ~check(P1, "KEYWORD_INTO")
            THEN Parsed(error(P1, "Expected 'INTO' after 'INSERT'"), Null)
            ELSE
            LET P2 == parserAdvance(P1)
            IN  IF ~check(P2, "IDENTIFIER")
                THEN Parsed(error(P2, "Expected table name after 'INSERT INTO'"), Null)
                ELSE
                LET n1 == addChild(insertNode,
                            ParseTreeNode("TABLE_NAME", parserPeek(P2).value))
                    P3 == consume(parserAdvance(P2), "OP_LPAREN",
                                  "Expected '(' after table name")
                IN  IF ~check(P3, "IDENTIFIER")
                    THEN Parsed(error(P3, "Expected column name in column list"), Null)
                    ELSE
                    LET columns ==
                            insertColumnLoop(parserAdvance(P3),
                                addChild(ParseTreeNode("COLUMN_LIST", <<>>),
                                         ParseTreeNode("COLUMN", parserPeek(P3).value)))
                    IN  IF columns.node = Null
                        THEN Parsed(columns.p, Null)
                        ELSE parseInsertValues(
                                consume(columns.p, "OP_RPAREN",
                                        "Expected ')' after column list"),
                                addChild(n1, columns.node))

parseUpdate(P) ==
    LET updateNode == ParseTreeNode("UPDATE_QUERY", <<>>)
    IN  IF ~check(P, "KEYWORD_UPDATE")
        THEN Parsed(error(P, "Expected 'UPDATE' keyword"), Null)
        ELSE
        LET P1 == parserAdvance(P)
        IN  IF ~check(P1, "IDENTIFIER")
            THEN Parsed(error(P1, "Expected table name after 'UPDATE'"), Null)
            ELSE
            LET n1 == addChild(updateNode,
                        ParseTreeNode("TABLE_NAME", parserPeek(P1).value))
                P2 == parserAdvance(P1)
            IN  IF ~check(P2, "KEYWORD_SET")
                THEN Parsed(error(P2, "Expected 'SET' keyword after table name"), Null)
                ELSE
                LET P3 == parserAdvance(P2)
                    setClause == ParseTreeNode("SET_CLAUSE", <<"S","E","T">>)
                    assignment == ParseTreeNode("ASSIGNMENT", <<>>)
                IN  IF ~check(P3, "IDENTIFIER")
                    THEN Parsed(error(P3, "Expected column name in SET clause"), Null)
                    ELSE
                    LET a1 == addChild(assignment,
                                ParseTreeNode("COLUMN", parserPeek(P3).value))
                        P4 == consume(parserAdvance(P3), "OP_EQUALS",
                                      "Expected '=' in SET clause")
                    IN  IF ~checkValue(P4)
                        THEN Parsed(error(P4, "Expected value in SET clause"), Null)
                        ELSE
                        LET a2 == addChild(a1,
                                    ParseTreeNode("VALUE", parserPeek(P4).value))
                            n2 == addChild(n1, addChild(setClause, a2))
                        IN  optionalWhereThenSemicolon(parserAdvance(P4), n2,
                                "Expected ';' at end of UPDATE statement")

parseDelete(P) ==
    LET deleteNode == ParseTreeNode("DELETE_QUERY", <<>>)
    IN  IF ~check(P, "KEYWORD_DELETE")
        THEN Parsed(error(P, "Expected 'DELETE' keyword"), Null)
        ELSE
        LET fromClause == parseFromClause(parserAdvance(P))
        IN  IF fromClause.node = Null
            THEN Parsed(fromClause.p, Null)
            ELSE optionalWhereThenSemicolon(fromClause.p,
                    addChild(deleteNode, fromClause.node),
                    "Expected ';' at end of DELETE statement")

\* the default path of parseQuery: the SELECT statement
parseSelect(P) ==
    LET queryNode == ParseTreeNode("QUERY", <<>>)
        selectClause == parseSelectClause(P)
    IN  IF selectClause.node = Null
        THEN Parsed(selectClause.p, Null)
        ELSE
        LET fromClause == parseFromClause(selectClause.p)
        IN  IF fromClause.node = Null
            THEN Parsed(fromClause.p, Null)
            ELSE optionalWhereThenSemicolon(fromClause.p,
                    addChild(addChild(queryNode, selectClause.node), fromClause.node),
                    "Expected ';' at end of query")

\* mutant: every statement is parsed as a SELECT statement
parseQuery_SelectOnly(P) == parseSelect(P)

parseQuery(P) ==
    IF check(P, "KEYWORD_INSERT") THEN parseInsert(P)
    ELSE IF check(P, "KEYWORD_UPDATE") THEN parseUpdate(P)
    ELSE IF check(P, "KEYWORD_DELETE") THEN parseDelete(P)
    ELSE parseSelect(P)

\* Parser::parse(): the parser afterwards and the tree it returns
parse(P) == parseQuery(P)

ParserHasErrors(P) == P.errors # <<>>

(***************************************************************************)
(* Symbol table (src/src/symbol_table.cpp)                                 *)
(***************************************************************************)
ColumnInfo(n, t) == [name |-> n, dataType |-> t]

\* SymbolTable::SymbolTable(): the tables of the sample schema
symbolTable ==
    { [name |-> <<"e","m","p","l","o","y","e","e","s">>,
        columns |-> <<ColumnInfo(<<"i","d">>, "INT"),
                  ColumnInfo(<<"n","a","m","e">>, "VARCHAR"),
                  ColumnInfo(<<"a","g","e">>, "INT"),
                  ColumnInfo(<<"s","a","l","a","r","y">>, "FLOAT"),
                  ColumnInfo(<<"d","e","p","a","r","t","m","e","n","t">>, "VARCHAR")>>],
      [name |-> <<"d","e","p","a","r","t","m","e","n","t","s">>,
        columns |-> <<ColumnInfo(<<"i","d">>, "INT"),
                  ColumnInfo(<<"n","a","m","e">>, "VARCHAR"),
                  ColumnInfo(<<"b","u","d","g","e","t">>, "FLOAT")>>],
      [name |-> <<"u","s","e","r","s">>,
        columns |-> <<ColumnInfo(<<"i","d">>, "INT"),
                  ColumnInfo(<<"u","s","e","r","n","a","m","e">>, "VARCHAR"),
                  ColumnInfo(<<"e","m","a","i","l">>, "VARCHAR"),
                  ColumnInfo(<<"a","g","e">>, "INT"),
                  ColumnInfo(<<"s","t","a","t","u","s">>, "VARCHAR")>>],
      [name |-> <<"p","r","o","d","u","c","t","s">>,
        columns |-> <<ColumnInfo(<<"i","d">>, "INT"),
                  ColumnInfo(<<"n","a","m","e">>, "VARCHAR"),
                  ColumnInfo(<<"p","r","i","c","e">>, "FLOAT"),
                  ColumnInfo(<<"q","u","a","n","t","i","t","y">>, "INT")>>] }

tableExists(tableName) == \E t \in symbolTable : t.name = tableName

\* SymbolTable::getTable (Null is nullptr)
getTable(tableName) ==
    IF tableExists(tableName)
    THEN CHOOSE t \in symbolTable : t.name = tableName
    ELSE Null

\* mutant: every name is a column of the table
hasColumn_Any(table, colName) == TRUE

\* TableInfo::hasColumn
hasColumn(table, colName) ==
    \E i \in DOMAIN table.columns : table.columns[i].name = colName

columnExists(tableName, columnName) ==
    /\ tableExists(tableName)
    /\ hasColumn(getTable(tableName), columnName)

\* SymbolTable::getTableNames: the names in the iteration order of the
\* unordered_map, which the source does not fix; one order stands for it
getTableNames == <<<<"p","r","o","d","u","c","t","s">>, <<"u","s","e","r","s">>, <<"d","e","p","a","r","t","m","e","n","t","s">>, <<"e","m","p","l","o","y","e","e","s">>>>

(***************************************************************************)
(* Semantic analyzer (src/src/semantic.cpp)                                *)
(***************************************************************************)
\* SemanticAnalyzer::SemanticAnalyzer(); warnings are the "Warning:" lines the
\* analyzer prints
SemanticAnalyzer ==
    [currentTable |-> <<>>, errors |-> <<>>, selectedColumns |-> <<>>,
     warnings |-> <<>>]

\* SemanticAnalyzer::reportError(message, line = 1, col = 1)
semanticReportError(S, message) ==
    [S EXCEPT !.errors = Append(@, CompilerError("SEMANTIC_ERROR", message, 1, 1))]

columnNames(table) == [i \in DOMAIN table.columns |-> table.columns[i].name]

validateColumn(S, columnName) ==
    IF S.currentTable = <<>>
    THEN semanticReportError(S, Msg("No table context for column validation", <<>>))
    ELSE IF ~columnExists(S.currentTable, ToLowerStr(columnName))
    THEN semanticReportError(S,
            Msg("Column '%' does not exist in table '%'. Available columns: %",
                <<columnName, S.currentTable>>
                    \o (IF getTable(S.currentTable) # Null
                        THEN columnNames(getTable(S.currentTable))
                        ELSE <<>>)))
    ELSE S

RECURSIVE validateFromClauseLoop(_, _, _)
\* for (child : node->children) of validateFromClause, from child i on
validateFromClauseLoop(S, node, i) ==
    IF i > Len(node.children) THEN S
    ELSE LET child == node.children[i]
             lowerTable == ToLowerStr(child.value)
         IN  validateFromClauseLoop(
                IF child.type # "TABLE_NAME" THEN S
                ELSE IF ~tableExists(lowerTable)
                THEN semanticReportError(S,
                        Msg("Table '%' does not exist. Available tables: %",
                            <<child.value>> \o getTableNames))
                ELSE [S EXCEPT !.currentTable = lowerTable],
                node, i + 1)

validateFromClause(S, node) == validateFromClauseLoop(S, node, 1)

RECURSIVE validateColumnListLoop(_, _, _)
\* for (column : child->children) of validateSelectClause, from column i on
validateColumnListLoop(S, list, i) ==
    IF i > Len(list.children) THEN S
    ELSE LET column == list.children[i]
         IN  validateColumnListLoop(
                IF column.type # "COLUMN" \/ column.value = <<"*">> THEN S
                ELSE [validateColumn(S, column.value)
                        EXCEPT !.selectedColumns = Append(@, column.value)],
                list, i + 1)

RECURSIVE validateSelectClauseLoop(_, _, _)
\* for (child : node->children) of validateSelectClause, from child i on
validateSelectClauseLoop(S, node, i) ==
    IF i > Len(node.children) THEN S
    ELSE validateSelectClauseLoop(
            IF node.children[i].type = "COLUMN_LIST"
            THEN validateColumnListLoop(S, node.children[i], 1)
            ELSE S,
            node, i + 1)

validateSelectClause(S, node) == validateSelectClauseLoop(S, node, 1)

\* the value of the last child of the given type ("" when there is none)
lastValueOf(node, type) ==
    LET at == {i \in DOMAIN node.children : node.children[i].type = type}
    IN  IF at = {} THEN <<>>
        ELSE node.children[CHOOSE i \in at : \A j \in at : j <= i].value

\* the first column of the table whose name is columnName, as written
\* (Null when there is none)
firstColumnNamed(table, columnName) ==
    LET at == {i \in DOMAIN table.columns : table.columns[i].name = columnName}
    IN  IF at = {} THEN Null
        ELSE table.columns[CHOOSE i \in at : \A j \in at : i <= j]

\* the type compatibility check of validateCondition: whether it prints
\* the warning
conditionWarns(S, columnName, value) ==
    /\ columnName # <<>> /\ value # <<>>
    /\ getTable(S.currentTable) # Null
    /\ LET col == firstColumnNamed(getTable(S.currentTable), columnName)
       IN  /\ col # Null
           /\ col.dataType \in {"INT", "FLOAT"}
           /\ ~(isdigit(value[1]) \/ (value[1] = "-" /\ Len(value) > 1))

RECURSIVE validateConditionLoop(_, _, _)
\* for (child : node->children) of validateCondition, from child i on
validateConditionLoop(S, node, i) ==
    IF i > Len(node.children) THEN S
    ELSE validateConditionLoop(
            IF node.children[i].type = "COLUMN"
            THEN validateColumn(S, node.children[i].value)
            ELSE S,
            node, i + 1)

\* mutant: the type mismatch is reported as a semantic error
validateCondition_Fatal(S0, node) ==
    LET S == validateConditionLoop(S0, node, 1)
    IN  IF conditionWarns(S, lastValueOf(node, "COLUMN"), lastValueOf(node, "VALUE"))
        THEN semanticReportError(S,
                Msg("Comparing numeric column '%' with non-numeric value.",
                    <<lastValueOf(node, "COLUMN")>>))
        ELSE S

validateCondition(S0, node) ==
    LET S == validateConditionLoop(S0, node, 1)
        columnName == lastValueOf(node, "COLUMN")
        value == lastValueOf(node, "VALUE")
    IN  IF conditionWarns(S, columnName, value)
        THEN [S EXCEPT !.warnings =
                Append(@, Msg("Warning: Comparing numeric column '%' with non-numeric value.",
                              <<columnName>>))]
        ELSE S

RECURSIVE validateWhereClauseLoop(_, _, _)
\* for (child : node->children) of validateWhereClause, from child i on
validateWhereClauseLoop(S, node, i) ==
    IF i > Len(node.children) THEN S
    ELSE validateWhereClauseLoop(
            IF node.children[i].type = "CONDITION"
            THEN validateCondition(S, node.children[i])
            ELSE S,
            node, i + 1)

validateWhereClause(S, node) == validateWhereClauseLoop(S, node, 1)

\* the last child of the given type (Null is nullptr)
lastChildOf(node, type) ==
    LET at == {i \in DOMAIN node.children : node.children[i].type = type}
    IN  IF at = {} THEN Null
        ELSE node.children[CHOOSE i \in at : \A j \in at : j <= i]

\* mutant: the SELECT list and the WHERE clause are validated whether or not
\* the table was resolved
validateQuery_NoTableGuard(S, node) ==
    IF node = Null \/ node.type # "QUERY" THEN S
    ELSE
    LET fromClause   == lastChildOf(node, "FROM_CLAUSE")
        selectClause == lastChildOf(node, "SELECT_CLAUSE")
        whereClause  == lastChildOf(node, "WHERE_CLAUSE")
        S1 == IF fromClause # Null THEN validateFromClause(S, fromClause) ELSE S
        S2 == IF selectClause # Null
              THEN validateSelectClause(S1, selectClause) ELSE S1
    IN  IF whereClause # Null
        THEN validateWhereClause(S2, whereClause) ELSE S2

\* mutant: the WHERE clause is validated before the SELECT list
validateQuery_WhereFirst(S, node) ==
    IF node = Null \/ node.type # "QUERY" THEN S
    ELSE
    LET fromClause   == lastChildOf(node, "FROM_CLAUSE")
        selectClause == lastChildOf(node, "SELECT_CLAUSE")
        whereClause  == lastChildOf(node, "WHERE_CLAUSE")
        S1 == IF fromClause # Null THEN validateFromClause(S, fromClause) ELSE S
        S2 == IF whereClause # Null /\ S1.currentTable # <<>>
              THEN validateWhereClause(S1, whereClause) ELSE S1
    IN  IF selectClause # Null /\ S2.currentTable # <<>>
        THEN validateSelectClause(S2, selectClause) ELSE S2

validateQuery(S, node) ==
    IF node = Null \/ node.type # "QUERY" THEN S
    ELSE
    LET fromClause   == lastChildOf(node, "FROM_CLAUSE")
        selectClause == lastChildOf(node, "SELECT_CLAUSE")
        whereClause  == lastChildOf(node, "WHERE_CLAUSE")
        S1 == IF fromClause # Null THEN validateFromClause(S, fromClause) ELSE S
        S2 == IF selectClause # Null /\ S1.currentTable # <<>>
              THEN validateSelectClause(S1, selectClause) ELSE S1
    IN  IF whereClause # Null /\ S2.currentTable # <<>>
        THEN validateWhereClause(S2, whereClause) ELSE S2

\* the loop state of validateInsert: the analyzer, columns, valueCount, and
\* whether the function has returned
InsertScan(S, columns, valueCount, returned) ==
    [s |-> S, columns |-> columns, valueCount |-> valueCount, returned |-> returned]

RECURSIVE validateInsertColumns(_, _, _)
\* for (col : child->children) of validateInsert, from column i on
validateInsertColumns(scan, list, i) ==
    IF i > Len(list.children) THEN scan
    ELSE validateInsertColumns(
            IF list.children[i].type = "COLUMN"
            THEN InsertScan(validateColumn(scan.s, list.children[i].value),
                            Append(scan.columns, list.children[i].value),
                            scan.valueCount, FALSE)
            ELSE scan,
            list, i + 1)

RECURSIVE validateInsertLoop(_, _, _)
\* for (child : node->children) of validateInsert, from child i on
validateInsertLoop(scan, node, i) ==
    IF i > Len(node.children) \/ scan.returned THEN scan
    ELSE
    LET child == node.children[i]
        lowerTable == ToLowerStr(child.value)
    IN  validateInsertLoop(
            IF child.type = "TABLE_NAME"
            THEN IF ~tableExists(lowerTable)
                 THEN InsertScan(
                        semanticReportError(scan.s,
                            Msg("Table '%' does not exist.", <<child.value>>)),
                        scan.columns, scan.valueCount, TRUE)
                 ELSE InsertScan([scan.s EXCEPT !.currentTable = lowerTable],
                                 scan.columns, scan.valueCount, FALSE)
            ELSE IF child.type = "COLUMN_LIST"
            THEN validateInsertColumns(scan, child, 1)
            ELSE IF child.type = "VALUE_LIST"
            THEN InsertScan(scan.s, scan.columns,
                    scan.valueCount
                        + Cardinality({j \in DOMAIN child.children :
                                            child.children[j].type = "VALUE"}),
                    FALSE)
            ELSE scan,
            node, i + 1)

\* decimal digits of a natural number: std::to_string
RECURSIVE to_string(_)
to_string(n) ==
    LET d == <<"0","1","2","3","4","5","6","7","8","9">>[(n % 10) + 1]
    IN  IF n < 10 THEN <<d>> ELSE to_string(n \div 10) \o <<d>>

\* mutant: the column count is not compared with the value count
validateInsert_NoCount(S, node) ==
    validateInsertLoop(InsertScan(S, <<>>, 0, FALSE), node, 1).s

validateInsert(S, node) ==
    LET scan == validateInsertLoop(InsertScan(S, <<>>, 0, FALSE), node, 1)
    IN  IF scan.returned THEN scan.s
        ELSE IF /\ scan.columns # <<>>
                /\ scan.valueCount > 0
                /\ Len(scan.columns) # scan.valueCount
        THEN semanticReportError(scan.s,
                Msg("Column count (%) does not match value count (%)",
                    <<to_string(Len(scan.columns)), to_string(scan.valueCount)>>))
        ELSE scan.s

RECURSIVE validateAssignmentLoop(_, _, _)
\* for (ac : assign->children) of validateUpdate, from child i on
validateAssignmentLoop(S, assign, i) ==
    IF i > Len(assign.children) THEN S
    ELSE validateAssignmentLoop(
            IF assign.children[i].type = "COLUMN"
            THEN validateColumn(S, assign.children[i].value)
            ELSE S,
            assign, i + 1)

RECURSIVE validateSetClauseLoop(_, _, _)
\* for (assign : child->children) of validateUpdate, from child i on
validateSetClauseLoop(S, setClause, i) ==
    IF i > Len(setClause.children) THEN S
    ELSE validateSetClauseLoop(
            IF setClause.children[i].type = "ASSIGNMENT"
            THEN validateAssignmentLoop(S, setClause.children[i], 1)
            ELSE S,
            setClause, i + 1)

RECURSIVE validateUpdateLoop(_, _, _)
\* for (child : node->children) of validateUpdate, from child i on; it ends
\* at the  return  after an unknown table
validateUpdateLoop(S, node, i) ==
    IF i > Len(node.children) THEN S
    ELSE
    LET child == node.children[i]
        lowerTable == ToLowerStr(child.value)
    IN  IF child.type = "TABLE_NAME"
        THEN IF ~tableExists(lowerTable)
             THEN semanticReportError(S,
                    Msg("Table '%' does not exist.", <<child.value>>))
             ELSE validateUpdateLoop([S EXCEPT !.currentTable = lowerTable],
                                     node, i + 1)
        ELSE IF child.type = "SET_CLAUSE"
        THEN validateUpdateLoop(validateSetClauseLoop(S, child, 1), node, i + 1)
        ELSE IF child.type = "WHERE_CLAUSE"
        THEN validateUpdateLoop(validateWhereClause(S, child), node, i + 1)
        ELSE validateUpdateLoop(S, node, i + 1)

validateUpdate(S, node) == validateUpdateLoop(S, node, 1)

RECURSIVE validateDeleteLoop(_, _, _)
\* for (child : node->children) of validateDelete, from child i on
validateDeleteLoop(S, node, i) ==
    IF i > Len(node.children) THEN S
    ELSE validateDeleteLoop(
            IF node.children[i].type = "FROM_CLAUSE"
            THEN validateFromClause(S, node.children[i])
            ELSE IF node.children[i].type = "WHERE_CLAUSE" /\ S.currentTable # <<>>
            THEN validateWhereClause(S, node.children[i])
            ELSE S,
            node, i + 1)

validateDelete(S, node) == validateDeleteLoop(S, node, 1)

\* SemanticAnalyzer::analyze: the analyzer afterwards; it returns
\* analyzeResult of it
analyze(S0, tree) ==
    LET S == [S0 EXCEPT !.errors = <<>>, !.currentTable = <<>>,
                        !.selectedColumns = <<>>]
    IN  IF tree = Null
        THEN semanticReportError(S, Msg("No parse tree to analyze", <<>>))
        ELSE CASE tree.type = "QUERY"        -> validateQuery(S, tree)
               [] tree.type = "INSERT_QUERY" -> validateInsert(S, tree)
               [] tree.type = "UPDATE_QUERY" -> validateUpdate(S, tree)
               [] tree.type = "DELETE_QUERY" -> validateDelete(S, tree)
               [] OTHER -> semanticReportError(S,
                              Msg("Unknown query type for semantic analysis", <<>>))

\* the value analyze() returns
analyzeResult(S) == S.errors = <<>>

SemanticHasErrors(S) == S.errors # <<>>

(***************************************************************************)
(* Data store (src/src/data_store.cpp)                                     *)
(***************************************************************************)
\* the characters in the order of their codes: std::string compares by it
\* (the grave accent, which no text here holds, is left out)
CharCodes ==
    << "\t", "\n", "\r", " ", "!", "\"", "#", "$", "%", "&", "'", "(", ")", "*", "+", ",",
       "-", ".", "/", "0", "1", "2", "3", "4", "5", "6", "7", "8", "9", ":", ";", "<",
       "=", ">", "?", "@", "A", "B", "C", "D", "E", "F", "G", "H", "I", "J", "K", "L",
       "M", "N", "O", "P", "Q", "R", "S", "T", "U", "V", "W", "X", "Y", "Z", "[", "\\",
       "]", "^", "_", "a", "b", "c", "d", "e", "f", "g", "h", "i", "j", "k", "l",
       "m", "n", "o", "p", "q", "r", "s", "t", "u", "v", "w", "x", "y", "z", "{", "|",
       "}", "~" >>

ord(c) == CHOOSE i \in DOMAIN CharCodes : CharCodes[i] = c

RECURSIVE stringLess(_, _)
\* std::string operator<
stringLess(a, b) ==
    IF b = <<>> THEN FALSE
    ELSE IF a = <<>> THEN TRUE
    ELSE IF Head(a) # Head(b) THEN ord(Head(a)) < ord(Head(b))
    ELSE stringLess(Tail(a), Tail(b))

isspace(c) == c \in {" ", "\t", "\n", "\r"}

RECURSIVE skipSpace(_)
skipSpace(s) == IF s # <<>> /\ isspace(Head(s)) THEN skipSpace(Tail(s)) ELSE s

RECURSIVE digitPrefix(_)
\* the longest prefix of s made of decimal digits
digitPrefix(s) ==
    IF s # <<>> /\ isdigit(Head(s)) THEN <<Head(s)>> \o digitPrefix(Tail(s))
    ELSE <<>>

digitValue(c) == ord(c) - ord("0")

RECURSIVE digitsValue(_)
digitsValue(ds) ==
    IF ds = <<>> THEN 0
    ELSE 10 * digitsValue(SubSeq(ds, 1, Len(ds) - 1)) + digitValue(ds[Len(ds)])

RECURSIVE pow10(_)
pow10(n) == IF n = 0 THEN 1 ELSE 10 * pow10(n - 1)

\* std::stod: white space, an optional sign, then the longest decimal text
\* digits[.digits] with at least one digit; what follows it is ignored.  The
\* value is  sign * num / 10^scale;  Null stands for std::invalid_argument.
\* Texts with an exponent, a hexadecimal, an infinity or a nan form are not
\* among the values of the statements and rows of this model.
stod(str) ==
    LET s0 == skipSpace(str)
        signed == s0 # <<>> /\ Head(s0) \in {"+", "-"}
        s1 == IF signed THEN Tail(s0) ELSE s0
        intPart == digitPrefix(s1)
        s2 == SubSeq(s1, Len(intPart) + 1, Len(s1))
        fracPart == IF s2 # <<>> /\ Head(s2) = "." THEN digitPrefix(Tail(s2)) ELSE <<>>
    IN  IF intPart = <<>> /\ fracPart = <<>> THEN Null
        ELSE [num |-> (IF signed /\ Head(s0) = "-" THEN -1 ELSE 1)
                        * digitsValue(intPart \o fracPart),
              scale |-> Len(fracPart)]

RelOps == {<<"=">>, <<"!","=">>, <<"<">>, <<"<","=">>, <<">">>, <<">","=">>}

\* the comparisons of compareValues on two doubles, given as the integers
\* l and r that the two values are when scaled by one power of ten
compareNumbers(l, op, r) ==
    CASE op = <<"=">>     -> l = r
      [] op = <<"!","=">> -> l # r
      [] op = <<"<">>     -> l < r
      [] op = <<"<","=">> -> l <= r
      [] op = <<">">>     -> l > r
      [] op = <<">","=">> -> l >= r

\* the comparisons of compareValues on the two strings
compareStrings(left, op, right) ==
    CASE op = <<"=">>     -> left = right
      [] op = <<"!","=">> -> left # right
      [] op = <<"<">>     -> stringLess(left, right)
      [] op = <<"<","=">> -> ~stringLess(right, left)
      [] op = <<">">>     -> stringLess(right, left)
      [] op = <<">","=">> -> ~stringLess(left, right)
      [] OTHER -> FALSE

compareValues(left, op, right) ==
    LET lVal == stod(left)
        rVal == stod(right)
    IN  IF lVal # Null /\ rVal # Null /\ op \in RelOps
        THEN compareNumbers(lVal.num * pow10(rVal.scale), op,
                            rVal.num * pow10(lVal.scale))
        ELSE compareStrings(left, op, right)

\* Row row; row[columns[i]] = values[i]  for every i in turn
Row(columns, values) ==
    [c \in {columns[i] : i \in DOMAIN columns} |->
        values[CHOOSE i \in DOMAIN columns :
                 /\ columns[i] = c
                 /\ \A j \in DOMAIN columns : columns[j] = c => j <= i]]

\* the value insertRow returns together with the store it leaves
Stored(store, value) == [store |-> store, value |-> value]

insertRow(store, tableName, columns, values) ==
    IF tableName \notin DOMAIN store THEN Stored(store, FALSE)
    ELSE IF Len(columns) # Len(values) THEN Stored(store, FALSE)
    ELSE Stored([store EXCEPT ![tableName].rows = Append(@, Row(columns, values))],
                TRUE)

getRows(store, tableName) ==
    IF tableName \notin DOMAIN store THEN <<>> ELSE store[tableName].rows

\* whether a row is one the WHERE condition selects
rowMatches(row, column, op, value) ==
    column \in DOMAIN row /\ compareValues(row[column], op, value)

getFilteredRows(store, tableName, column, op, value) ==
    IF tableName \notin DOMAIN store THEN <<>>
    ELSE SelectSeq(store[tableName].rows,
                   LAMBDA row : rowMatches(row, column, op, value))

\* row[setColumn] = setValue
setColumnOf(row, setColumn, setValue) ==
    [c \in DOMAIN row \cup {setColumn} |->
        IF c = setColumn THEN setValue ELSE row[c]]

updateRows(store, tableName, setColumn, setValue, whereColumn, whereOp, whereValue) ==
    IF tableName \notin DOMAIN store THEN Stored(store, 0)
    ELSE LET rows == store[tableName].rows
             hit(i) == rowMatches(rows[i], whereColumn, whereOp, whereValue)
         IN  Stored([store EXCEPT ![tableName].rows =
                        [i \in DOMAIN rows |->
                            IF hit(i) THEN setColumnOf(rows[i], setColumn, setValue)
                            ELSE rows[i]]],
                    Cardinality({i \in DOMAIN rows : hit(i)}))

deleteRows(store, tableName, whereColumn, whereOp, whereValue) ==
    IF tableName \notin DOMAIN store THEN Stored(store, 0)
    ELSE LET rows == store[tableName].rows
             kept == SelectSeq(rows,
                        LAMBDA row : ~rowMatches(row, whereColumn, whereOp, whereValue))
         IN  Stored([store EXCEPT ![tableName].rows = kept], Len(rows) - Len(kept))

deleteAllRows(store, tableName) ==
    IF tableName \notin DOMAIN store THEN Stored(store, 0)
    ELSE Stored([store EXCEPT ![tableName].rows = <<>>], Len(store[tableName].rows))

getColumnNames(store, tableName) ==
    IF tableName \notin DOMAIN store THEN <<>>
    ELSE columnNames(store[tableName].schema)

RECURSIVE insertRows(_, _, _, _)
\* for (row : data) insertRow(tableName, columns, row)
insertRows(store, tableName, columns, data) ==
    IF data = <<>> THEN store
    ELSE insertRows(insertRow(store, tableName, columns, Head(data)).store,
                    tableName, columns, Tail(data))

empData ==
    <<<<<<"1">>, <<"R","a","h","u","l"," ","S","h","a","r","m","a">>, <<"2","8">>, <<"5","5","0","0","0">>, <<"E","n","g","i","n","e","e","r","i","n","g">>>>,
      <<<<"2">>, <<"P","r","i","y","a"," ","P","a","t","e","l">>, <<"3","2">>, <<"7","2","0","0","0">>, <<"M","a","r","k","e","t","i","n","g">>>>,
      <<<<"3">>, <<"A","m","i","t"," ","K","u","m","a","r">>, <<"4","5">>, <<"9","5","0","0","0">>, <<"E","n","g","i","n","e","e","r","i","n","g">>>>,
      <<<<"4">>, <<"S","n","e","h","a"," ","G","u","p","t","a">>, <<"2","6">>, <<"4","8","0","0","0">>, <<"H","R">>>>,
      <<<<"5">>, <<"V","i","k","r","a","m"," ","S","i","n","g","h">>, <<"3","8">>, <<"8","2","0","0","0">>, <<"S","a","l","e","s">>>>,
      <<<<"6">>, <<"A","n","j","a","l","i"," ","V","e","r","m","a">>, <<"2","9">>, <<"6","1","0","0","0">>, <<"E","n","g","i","n","e","e","r","i","n","g">>>>,
      <<<<"7">>, <<"R","a","j","e","s","h"," ","N","a","i","r">>, <<"4","1">>, <<"8","8","0","0","0">>, <<"M","a","r","k","e","t","i","n","g">>>>,
      <<<<"8">>, <<"D","e","e","p","a"," ","I","y","e","r">>, <<"3","5">>, <<"7","5","0","0","0">>, <<"H","R">>>>>>

deptData ==
    <<<<<<"1">>, <<"E","n","g","i","n","e","e","r","i","n","g">>, <<"5","0","0","0","0","0">>>>,
      <<<<"2">>, <<"M","a","r","k","e","t","i","n","g">>, <<"3","0","0","0","0","0">>>>,
      <<<<"3">>, <<"H","R">>, <<"2","0","0","0","0","0">>>>,
      <<<<"4">>, <<"S","a","l","e","s">>, <<"3","5","0","0","0","0">>>>>>

userData ==
    <<<<<<"1">>, <<"r","a","h","u","l","_","d","e","v">>, <<"r","a","h","u","l","@","e","x","a","m","p","l","e",".","c","o","m">>, <<"2","8">>, <<"a","c","t","i","v","e">>>>,
      <<<<"2">>, <<"p","r","i","y","a","_","m">>, <<"p","r","i","y","a","@","e","x","a","m","p","l","e",".","c","o","m">>, <<"3","2">>, <<"a","c","t","i","v","e">>>>,
      <<<<"3">>, <<"a","m","i","t","_","k">>, <<"a","m","i","t","@","e","x","a","m","p","l","e",".","c","o","m">>, <<"4","5">>, <<"i","n","a","c","t","i","v","e">>>>,
      <<<<"4">>, <<"s","n","e","h","a","_","g">>, <<"s","n","e","h","a","@","e","x","a","m","p","l","e",".","c","o","m">>, <<"2","6">>, <<"a","c","t","i","v","e">>>>,
      <<<<"5">>, <<"v","i","k","r","a","m","_","s">>, <<"v","i","k","r","a","m","@","e","x","a","m","p","l","e",".","c","o","m">>, <<"3","8">>, <<"a","c","t","i","v","e">>>>>>

prodData ==
    <<<<<<"1">>, <<"L","a","p","t","o","p">>, <<"7","5","0","0","0",".","5","0">>, <<"2","5">>>>,
      <<<<"2">>, <<"M","o","u","s","e">>, <<"5","0","0",".","0","0">>, <<"1","5","0">>>>,
      <<<<"3">>, <<"K","e","y","b","o","a","r","d">>, <<"1","5","0","0",".","0","0">>, <<"8","0">>>>,
      <<<<"4">>, <<"M","o","n","i","t","o","r">>, <<"2","2","0","0","0",".","0","0">>, <<"4","0">>>>,
      <<<<"5">>, <<"H","e","a","d","p","h","o","n","e","s">>, <<"3","5","0","0",".","0","0">>, <<"1","0","0">>>>>>

\* loads one table's sample rows if the store has the table
loadTable(store, tableName, columns, data) ==
    IF tableName \in DOMAIN store
    THEN insertRows(store, tableName, columns, data)
    ELSE store

loadSampleData(store) ==
    loadTable(
      loadTable(
        loadTable(
          loadTable(store, <<"e","m","p","l","o","y","e","e","s">>,
                    <<<<"i","d">>, <<"n","a","m","e">>, <<"a","g","e">>, <<"s","a","l","a","r","y">>, <<"d","e","p","a","r","t","m","e","n","t">>>>,
                    empData),
          <<"d","e","p","a","r","t","m","e","n","t","s">>,
          <<<<"i","d">>, <<"n","a","m","e">>, <<"b","u","d","g","e","t">>>>, deptData),
        <<"u","s","e","r","s">>,
        <<<<"i","d">>, <<"u","s","e","r","n","a","m","e">>, <<"e","m","a","i","l">>, <<"a","g","e">>, <<"s","t","a","t","u","s">>>>, userData),
      <<"p","r","o","d","u","c","t","s">>,
      <<<<"i","d">>, <<"n","a","m","e">>, <<"p","r","i","c","e">>, <<"q","u","a","n","t","i","t","y">>>>, prodData)

\* DataStore::DataStore(symbolTable): a table of no rows for every table of
\* the schema, then the sample data
DataStore ==
    loadSampleData([n \in {t.name : t \in symbolTable} |->
                        [schema |-> getTable(n), rows |-> <<>>]])

(***************************************************************************)
(* Executor (src/src/executor.cpp)                                         *)
(***************************************************************************)
QueryResult(success, message, columnNames_, rows, affectedRows) ==
    [success |-> success, message |-> message, columnNames |-> columnNames_,
     rows |-> rows, affectedRows |-> affectedRows]

\* what execute leaves: the data store and the result it returns
Executed(store, result) == [store |-> store, result |-> result]

nodesOfType(nodes, type) == SelectSeq(nodes, LAMBDA n : n.type = type)

RECURSIVE childrenOfAll(_)
\* the children of the nodes, in order
childrenOfAll(nodes) ==
    IF nodes = <<>> THEN <<>>
    ELSE Head(nodes).children \o childrenOfAll(Tail(nodes))

valuesOf(nodes) == [i \in DOMAIN nodes |-> nodes[i].value]

\* the value a loop of assignments leaves in a string that starts empty
lastAssigned(values) == IF values = <<>> THEN <<>> ELSE values[Len(values)]

\* the loops over WHERE_CLAUSE / CONDITION children of the execute functions
whereInfo(tree) ==
    LET clauses == nodesOfType(tree.children, "WHERE_CLAUSE")
        parts == childrenOfAll(nodesOfType(childrenOfAll(clauses), "CONDITION"))
    IN  [hasWhere |-> clauses # <<>>,
         whereCol |-> lastAssigned(valuesOf(nodesOfType(parts, "COLUMN"))),
         whereOp  |-> lastAssigned(valuesOf(nodesOfType(parts, "OPERATOR"))),
         whereVal |-> lastAssigned(valuesOf(nodesOfType(parts, "VALUE")))]

\* the table name the FROM_CLAUSE loops of executeSelect / executeDelete leave
fromTableName(tree) ==
    ToLowerStr(lastAssigned(valuesOf(nodesOfType(
        childrenOfAll(nodesOfType(tree.children, "FROM_CLAUSE")), "TABLE_NAME"))))

\* the table name the TABLE_NAME branch of executeInsert / executeUpdate leaves
ownTableName(tree) ==
    ToLowerStr(lastAssigned(valuesOf(nodesOfType(tree.children, "TABLE_NAME"))))

executeSelect(store, tree) ==
    LET tableName == fromTableName(tree)
        listed == valuesOf(nodesOfType(childrenOfAll(nodesOfType(
                    childrenOfAll(nodesOfType(tree.children, "SELECT_CLAUSE")),
                    "COLUMN_LIST")), "COLUMN"))
        selectAll == \E i \in DOMAIN listed : listed[i] = <<"*">>
        selectedCols == IF selectAll THEN getColumnNames(store, tableName)
                        ELSE SelectSeq(listed, LAMBDA v : v # <<"*">>)
        w == whereInfo(tree)
        rows == IF w.hasWhere
                THEN getFilteredRows(store, tableName, w.whereCol, w.whereOp, w.whereVal)
                ELSE getRows(store, tableName)
    IN  Executed(store,
            QueryResult(TRUE,
                Msg("Query executed successfully. % row(s) returned.",
                    <<to_string(Len(rows))>>),
                selectedCols, rows, 0))

\* the result of executeInsert after insertRow has returned r
insertResult(r) ==
    Executed(r.store,
        QueryResult(r.value,
            IF r.value
            THEN Msg("1 row inserted successfully.", <<>>)
            ELSE Msg("INSERT failed: column/value count mismatch or table not found.",
                     <<>>),
            <<>>, <<>>, IF r.value THEN 1 ELSE 0))

executeInsert(store, tree) ==
    insertResult(insertRow(store, ownTableName(tree),
        valuesOf(nodesOfType(
            childrenOfAll(nodesOfType(tree.children, "COLUMN_LIST")), "COLUMN")),
        valuesOf(nodesOfType(
            childrenOfAll(nodesOfType(tree.children, "VALUE_LIST")), "VALUE"))))

\* the result of executeUpdate / executeDelete after the data store has
\* returned the count r.value
countResult(r, text) ==
    Executed(r.store,
        QueryResult(TRUE, Msg(text, <<to_string(r.value)>>), <<>>, <<>>, r.value))

\* setCol, setVal of executeUpdate, and the call of updateRows
updateWhere(store, tree, parts, w) ==
    updateRows(store, ownTableName(tree),
               lastAssigned(valuesOf(nodesOfType(parts, "COLUMN"))),
               lastAssigned(valuesOf(nodesOfType(parts, "VALUE"))),
               w.whereCol, w.whereOp, w.whereVal)

\* executeUpdate once the WHERE_CLAUSE loop has left w
executeUpdateWhere(store, tree, w) ==
    IF ~w.hasWhere
    THEN Executed(store,
            QueryResult(FALSE,
                Msg("UPDATE without WHERE is not supported for safety.", <<>>),
                <<>>, <<>>, 0))
    ELSE countResult(
            updateWhere(store, tree,
                childrenOfAll(nodesOfType(
                    childrenOfAll(nodesOfType(tree.children, "SET_CLAUSE")),
                    "ASSIGNMENT")),
                w),
            "% row(s) updated successfully.")

executeUpdate(store, tree) == executeUpdateWhere(store, tree, whereInfo(tree))

\* executeDelete once the WHERE_CLAUSE loop has left w
executeDeleteWhere(store, tableName, w) ==
    countResult(
        IF w.hasWhere
        THEN deleteRows(store, tableName, w.whereCol, w.whereOp, w.whereVal)
        ELSE deleteAllRows(store, tableName),
        "% row(s) deleted successfully.")

executeDelete(store, tree) ==
    executeDeleteWhere(store, fromTableName(tree), whereInfo(tree))

\* Executor::execute
execute(store, tree) ==
    IF tree = Null
    THEN Executed(store,
            QueryResult(FALSE, Msg("No parse tree to execute", <<>>), <<>>, <<>>, 0))
    ELSE CASE tree.type = "QUERY"        -> executeSelect(store, tree)
           [] tree.type = "INSERT_QUERY" -> executeInsert(store, tree)
           [] tree.type = "UPDATE_QUERY" -> executeUpdate(store, tree)
           [] tree.type = "DELETE_QUERY" -> executeDelete(store, tree)
           [] OTHER -> Executed(store,
                          QueryResult(FALSE, Msg("Unknown query type", <<>>),
                                      <<>>, <<>>, 0))

(***************************************************************************)
(* Error handler (src/src/error_handler.cpp)                               *)
(***************************************************************************)
\* ErrorHandler::addErrors
addErrors(handler, errs) == handler \o errs

\* ErrorHandler::getErrorsByType
getErrorsByType(handler, type) == SelectSeq(handler, LAMBDA e : e.type = type)

(***************************************************************************)
(* Source texts                                                            *)
(***************************************************************************)
RECURSIVE Join(_)
\* the words of ws, in order, separated by single spaces
Join(ws) ==
    IF ws = <<>> THEN <<>>
    ELSE IF Len(ws) = 1 THEN ws[1]
    ELSE ws[1] \o <<" ">> \o Join(Tail(ws))

MaxLen == 4

Alphabet == {"o", "R", "1", ".", "'", "\n", " ", "!", "=", "<", "#"}

ShortTexts == UNION {[1..n -> Alphabet] : n \in 0..MaxLen}

wSELECT == <<"S","E","L","E","C","T">>
wFROM == <<"F","R","O","M">>
wWHERE == <<"W","H","E","R","E">>
wemployees == <<"e","m","p","l","o","y","e","e","s">>
wusers == <<"u","s","e","r","s">>
wname == <<"n","a","m","e">>

\* SELECT * FROM employees;
TextSelectStar == Join(<<wSELECT, <<"*">>, wFROM, wemployees>>) \o <<";">>

\* select * From users where name = 'a b';
TextLowerCase ==
    Join(<<<<"s","e","l","e","c","t">>, <<"*">>, <<"F","r","o","m">>, wusers,
           <<"w","h","e","r","e">>, wname, <<"=">>,
           <<"'","a"," ","b","'">>>>) \o <<";">>

\* SELECT * FROM users WHERE name = 'abc;
TextUnterminated ==
    Join(<<wSELECT, <<"*">>, wFROM, wusers, wWHERE, wname, <<"=">>,
           <<"'","a","b","c",";">>>>)

\* a text of several lines with every kind of token and of white space
TextManyLines ==
    wSELECT \o <<"\n", "_","x","1", ",", "\t", "s","e","t","_", "\n">>
        \o wFROM \o <<" ", "t", "\n">> \o wWHERE
        \o <<" ", "a", ">", "=", "1","0",".","5", "\r", "\n",
             "(", ")", "*", ">", " ", "'", "x", "\n", "y", "'", " ", ";">>

SampleTexts == {TextSelectStar, TextLowerCase, TextUnterminated, TextManyLines}

\* the short texts of comparison operator characters
OperatorTexts == UNION {[1..n -> {">", "=", "!"}] : n \in 1..3}

LexTexts == ShortTexts \cup SampleTexts \cup OperatorTexts

(***************************************************************************)
(* The tokenizer alone, one scanning step at a time                        *)
(***************************************************************************)
InitLex ==
    /\ query \in LexTexts
    /\ lexer = Lexer(query)
    /\ pc = "tokenize"
    /\ parser = Null
    /\ parseTree = Null
    /\ semanticAnalyzer = Null
    /\ errorHandler = <<>>
    /\ syntaxValid = FALSE
    /\ semanticValid = FALSE
    /\ executed = Null
    /\ globalDataStore = Null
    /\ calls = 0

\* one iteration of  while (!isAtEnd())  in tokenize()
LexScan ==
    /\ pc = "tokenize"
    /\ ~isAtEnd(lexer)
    /\ lexer' = tokenizeStep(lexer)
    /\ UNCHANGED <<pc, query, parser, parseTree, semanticAnalyzer, errorHandler,
                   syntaxValid, semanticValid, executed, globalDataStore, calls>>

\* the loop's exit: the end-of-input token is appended and tokenize() returns
LexEnd ==
    /\ pc = "tokenize"
    /\ isAtEnd(lexer)
    /\ lexer' = tokenizeEnd(lexer)
    /\ pc' = "tokenized"
    /\ UNCHANGED <<query, parser, parseTree, semanticAnalyzer, errorHandler,
                   syntaxValid, semanticValid, executed, globalDataStore, calls>>

NextLex == LexScan \/ LexEnd

SpecLex == InitLex /\ [][NextLex]_vars

(***************************************************************************)
(* The statements given to compileAndExecute                               *)
(***************************************************************************)
wINSERT == <<"I","N","S","E","R","T">>
wINTO == <<"I","N","T","O">>
wVALUES == <<"V","A","L","U","E","S">>
wUPDATE == <<"U","P","D","A","T","E">>
wSET == <<"S","E","T">>
wDELETE == <<"D","E","L","E","T","E">>
wUSERS == <<"U","S","E","R","S">>
wid == <<"i","d">>
wage == <<"a","g","e">>
wghost == <<"g","h","o","s","t">>
wnosuch == <<"n","o","s","u","c","h">>

\* a statement as the sequence of its lexemes; Join writes it as a text
TableWords == {wusers, wUSERS, wnosuch}

WhereWords ==
    { <<>>,
      <<wWHERE, wid, <<"=">>, <<"1">>>>,
      <<wWHERE, wghost, <<">">>, <<"1">>>> }

SelectWords ==
    { <<wSELECT, c, wFROM, t>> \o w \o << <<";">> >> :
        c \in {<<"*">>, wid, wghost}, t \in TableWords, w \in WhereWords }

ColumnListWords == { <<wid>>, <<wid, <<",">>, wage>>, <<wghost>> }

ValueListWords == { << <<"9">> >>, << <<"9">>, <<",">>, <<"'","a","'">> >> }

InsertWords ==
    { <<wINSERT, wINTO, t, <<"(">> >> \o cs \o << <<")">>, wVALUES, <<"(">> >>
        \o vs \o << <<")">>, <<";">> >> :
        t \in TableWords, cs \in ColumnListWords, vs \in ValueListWords }

UpdateWords ==
    { <<wUPDATE, t, wSET, c, <<"=">>, <<"3","0">> >> \o w \o << <<";">> >> :
        t \in TableWords, c \in {wage, wghost}, w \in WhereWords }

DeleteWords ==
    { <<wDELETE, wFROM, t>> \o w \o << <<";">> >> :
        t \in TableWords, w \in WhereWords }

\* the well-formed statements of the four forms
BaseWords == SelectWords \cup InsertWords \cup UpdateWords \cup DeleteWords

\* a statement with one lexeme left out
DropOne(ws) ==
    { SubSeq(ws, 1, i - 1) \o SubSeq(ws, i + 1, Len(ws)) : i \in DOMAIN ws }

\* a statement with one more lexeme after its ';'
Trailing(ws) == { ws \o <<x>> : x \in { <<"x">>, <<";">>, wSELECT } }

\* a statement with a character no token starts with, or with a string
\* literal left open
Garbled(ws) == { << <<"#">> >> \o ws, ws \o << <<"'","a">> >> }

wdepartments == <<"d","e","p","a","r","t","m","e","n","t","s">>
wproducts == <<"p","r","o","d","u","c","t","s">>
wID == <<"I","D">>

\* the place of the table reference in a statement form
wTABLE == <<"@">>

\* a catalog table name as written in a statement: lower case, upper case, and
\* with a capital first letter
Cased(t) == { t, ToUpperStr(t), <<toupper(t[1])>> \o Tail(t) }

CatalogTableWords == { wemployees, wdepartments, wusers, wproducts }

CatalogWhereWords ==
    { <<>>,
      <<wWHERE, wage, <<">">>, <<"2","5">>>>,
      <<wWHERE, wghost, <<">">>, <<"1">>>>,
      <<wWHERE, wid, <<"=">>, <<"'","a","'">>>>,
      <<wWHERE, wid, <<"=">>, <<"x">>>> }

\* statement forms over a table of the catalog
CatalogForms ==
    { <<wSELECT, c, wFROM, wTABLE>> \o w \o << <<";">> >> :
        c \in {<<"*">>, wID, wghost}, w \in CatalogWhereWords }
    \cup
    { <<wINSERT, wINTO, wTABLE, <<"(">> >> \o cs
        \o << <<")">>, wVALUES, <<"(">>, <<"1">>, <<")">>, <<";">> >> :
        cs \in { <<wid>>, <<wid, <<",">>, wname>>, <<wghost>>,
                 <<wghost, <<",">>, wid>> } }
    \cup
    { <<wUPDATE, wTABLE, wSET, c, <<"=">>, <<"3","0">> >> \o w \o << <<";">> >> :
        c \in {wage, wghost},
        w \in { <<wWHERE, wghost, <<">">>, <<"1">>>>,
                <<wWHERE, wid, <<"=">>, <<"'","a","'">>>> } }
    \cup
    { <<wDELETE, wFROM, wTABLE>> \o w \o << <<";">> >> :
        w \in { <<wWHERE, wid, <<"=">>, <<"1">>>>,
                <<wWHERE, wghost, <<">">>, <<"1">>>>,
                <<wWHERE, wid, <<"=">>, <<"'","a","'">>>> } }

\* the form with t written as its table reference
Fill(form, t) == [i \in DOMAIN form |-> IF form[i] = wTABLE THEN t ELSE form[i]]

CatalogWords ==
    { Fill(form, t) : form \in CatalogForms,
                      t \in UNION { Cased(n) : n \in CatalogTableWords } }

\* the statements the documentation gives as examples, written as there
ExampleSelectGhost ==
    Join(<<wSELECT, wghost, wFROM, wemployees \o <<";">> >>)

ExampleSelectStar ==
    Join(<<wSELECT, <<"*">>, wFROM, wemployees, wWHERE, wage, <<">">>,
           <<"2","5",";">> >>)

ExampleInsertArity ==
    Join(<<wINSERT, wINTO, wemployees, <<"(","i","d",",">>, <<"n","a","m","e",")">>,
           wVALUES, <<"(","1",")",";">> >>)

ExampleTexts == { ExampleSelectGhost, ExampleSelectStar, ExampleInsertArity }

StatementWords ==
    BaseWords \cup CatalogWords
        \cup UNION { DropOne(ws) \cup Trailing(ws) \cup Garbled(ws) :
                       ws \in BaseWords }

\* an INSERT without the parentheses of its column list and without the
\* closing parenthesis of its value list
UnparenthesizedInsert ==
    Join(<<wINSERT, wINTO, wusers, wid, wVALUES, <<"(">>, <<"9">>, <<";">> >>)

\* a statement terminator and nothing else
OnlySemicolon == <<";">>

DamagedTexts == { UnparenthesizedInsert, OnlySemicolon }

\* a SELECT and an UPDATE with one unknown column before WHERE and another
\* after it
TwoUnknownColumns ==
    { Join(<<wSELECT, wghost, wFROM, wusers, wWHERE, wnosuch, <<">">>, <<"1">>,
             <<";">> >>),
      Join(<<wUPDATE, wusers, wSET, wghost, <<"=">>, <<"3","0">>, wWHERE, wnosuch,
             <<"=">>, <<"1">>, <<";">> >>) }

\* an INSERT and an UPDATE with a column of the table written in upper case,
\* and an INSERT with a column listed twice
CasedColumnTexts ==
    { Join(<<wINSERT, wINTO, wusers, <<"(">>, wID, <<")">>, wVALUES, <<"(">>,
             <<"9">>, <<")">>, <<";">> >>),
      Join(<<wUPDATE, wusers, wSET, ToUpperStr(wage), <<"=">>, <<"3","0">>, wWHERE,
             wid, <<"=">>, <<"1">>, <<";">> >>),
      Join(<<wINSERT, wINTO, wusers, <<"(">>, wid, <<",">>, wid, <<")">>, wVALUES,
             <<"(">>, <<"9">>, <<",">>, <<"8">>, <<")">>, <<";">> >>) }

Statements ==
    { Join(ws) : ws \in StatementWords } \cup ExampleTexts \cup DamagedTexts
        \cup TwoUnknownColumns \cup CasedColumnTexts

(***************************************************************************)
(* compileAndExecute (src/src/main.cpp), one phase at a time, called over   *)
(* and over on the one global data store                                   *)
(***************************************************************************)
MaxCalls == 2

\* mutant: the executor runs whatever semantic analysis returned
ExecuteGate_IgnoreSemantic(syntaxValid_, semanticValid_, tree) ==
    syntaxValid_ /\ tree # Null

\* if (syntaxValid && semanticValid && parseTree)
ExecuteGate(syntaxValid_, semanticValid_, tree) ==
    syntaxValid_ /\ semanticValid_ /\ tree # Null

\* mutant: lexical errors do not end the call
LexicalGate_Never(L) == FALSE

\* if (lexer.hasErrors())
LexicalGate(L) == LexerHasErrors(L)

\* mutant: syntax errors do not end the call
SyntaxGate_Never(P) == FALSE

\* if (parser.hasErrors())
SyntaxGate(P) == ParserHasErrors(P)

\* static DataStore globalDataStore(globalSymbolTable); no call is running
Init ==
    /\ pc = "idle"
    /\ query = <<>>
    /\ lexer = Null
    /\ parser = Null
    /\ parseTree = Null
    /\ semanticAnalyzer = Null
    /\ errorHandler = <<>>
    /\ syntaxValid = FALSE
    /\ semanticValid = FALSE
    /\ executed = Null
    /\ globalDataStore = DataStore
    /\ calls = 0

\* compileAndExecute(q) is called: its locals are initialized and phase 1
\* runs; it returns at once if the lexer recorded errors
LexicalAnalysis ==
    /\ pc = "idle"
    /\ calls < MaxCalls
    /\ \E q \in Statements :
         LET L == tokenize(Lexer(q))
         IN  /\ query' = q
             /\ lexer' = L
             /\ IF LexicalGate(L)
                THEN /\ errorHandler' = addErrors(<<>>, L.errors)
                     /\ pc' = "returned"
                ELSE /\ errorHandler' = <<>>
                     /\ pc' = "syntax"
    /\ syntaxValid' = FALSE
    /\ semanticValid' = FALSE
    /\ parseTree' = Null
    /\ calls' = calls + 1
    /\ UNCHANGED <<parser, semanticAnalyzer, executed, globalDataStore>>

\* phase 2: the parser is made and run; the call returns if it recorded errors
SyntaxAnalysis ==
    /\ pc = "syntax"
    /\ LET R == parse(Parser(lexer.tokens))
       IN  /\ parser' = R.p
           /\ parseTree' = R.node
           /\ IF SyntaxGate(R.p)
              THEN /\ errorHandler' = addErrors(errorHandler, R.p.errors)
                   /\ pc' = "returned"
                   /\ UNCHANGED syntaxValid
              ELSE /\ syntaxValid' = (R.node # Null)
                   /\ pc' = "semantic"
                   /\ UNCHANGED errorHandler
    /\ UNCHANGED <<query, lexer, semanticAnalyzer, semanticValid, executed,
                   globalDataStore, calls>>

\* phase 3: the semantic analyzer is made and run
SemanticAnalysis ==
    /\ pc = "semantic"
    /\ LET S == analyze(SemanticAnalyzer, parseTree)
       IN  /\ semanticAnalyzer' = S
           /\ semanticValid' = analyzeResult(S)
           /\ errorHandler' = IF SemanticHasErrors(S)
                              THEN addErrors(errorHandler, S.errors)
                              ELSE errorHandler
    /\ pc' = "execution"
    /\ UNCHANGED <<query, lexer, parser, parseTree, syntaxValid, executed,
                   globalDataStore, calls>>

\* phase 4, and phase 5 which only prints: the executor is made and run on
\* the global data store if the gate lets it
Execution ==
    /\ pc = "execution"
    /\ IF ExecuteGate(syntaxValid, semanticValid, parseTree)
       THEN LET E == execute(globalDataStore, parseTree)
            IN  /\ executed' = E.result
                /\ globalDataStore' = E.store
       ELSE UNCHANGED <<executed, globalDataStore>>
    /\ pc' = "returned"
    /\ UNCHANGED <<query, lexer, parser, parseTree, semanticAnalyzer,
                   errorHandler, syntaxValid, semanticValid, calls>>

\* mutant: the collections of a call are statics that outlive it
Return_KeepLocals ==
    /\ pc = "returned"
    /\ pc' = "idle"
    /\ UNCHANGED <<query, lexer, parser, parseTree, semanticAnalyzer, errorHandler,
                   syntaxValid, semanticValid, executed, globalDataStore, calls>>

\* compileAndExecute returns: its locals are gone, the global store stays
Return ==
    /\ pc = "returned"
    /\ pc' = "idle"
    /\ query' = <<>>
    /\ lexer' = Null
    /\ parser' = Null
    /\ parseTree' = Null
    /\ semanticAnalyzer' = Null
    /\ errorHandler' = <<>>
    /\ syntaxValid' = FALSE
    /\ semanticValid' = FALSE
    /\ executed' = Null
    /\ UNCHANGED <<globalDataStore, calls>>

Next ==
    \/ LexicalAnalysis
    \/ SyntaxAnalysis
    \/ SemanticAnalysis
    \/ Execution
    \/ Return

Spec == Init /\ [][Next]_vars

(***************************************************************************)
(* What the source text says, read off the text alone (not the lexer)      *)
(***************************************************************************)
\* the 1-indexed line of the character at offset i
LineAt(src, i) == 1 + Cardinality({j \in 1..i : src[j] = "\n"})

\* the 1-indexed column of the character at offset i
ColAt(src, i) ==
    LET nl == {j \in 1..i : src[j] = "\n"}
    IN  IF nl = {} THEN i + 1 ELSE i + 1 - (CHOOSE j \in nl : \A k \in nl : k <= j)

QuoteOffsets(src) == {i \in 0..(Len(src) - 1) : src[i + 1] = "'"}

\* the character at offset i lies outside every string literal (and is no quote)
OutsideString(src, i) ==
    /\ src[i + 1] # "'"
    /\ Cardinality({q \in QuoteOffsets(src) : q < i}) % 2 = 0

\* a quote opens a string literal that end of input leaves unclosed
HasUnterminatedString(src) == Cardinality(QuoteOffsets(src)) % 2 = 1

OpeningQuote(src) ==
    CHOOSE q \in QuoteOffsets(src) : \A r \in QuoteOffsets(src) : r <= q

WordChar(c) == isalnum(c) \/ c = "_"

Whitespace == {" ", "\t", "\r", "\n"}

PunctuationChars == {"*", ",", ";", "(", ")", "=", "<", ">"}

RECURSIVE DotInNumber(_, _)
\* the '.' at offset i is the decimal point of a numeric literal: digits before
\* it that begin a number, and a digit after it
DotInNumber(src, i) ==
    /\ src[i + 1] = "."
    /\ i + 1 < Len(src) /\ isdigit(src[i + 2])
    /\ i > 0 /\ isdigit(src[i])
    /\ LET s == CHOOSE k \in 0..(i - 1) :
                    /\ \A j \in k..(i - 1) : isdigit(src[j + 1])
                    /\ (k = 0 \/ ~isdigit(src[k]))
       IN  \/ s = 0
           \/ /\ ~WordChar(src[s])
              /\ ~(src[s] = "." /\ DotInNumber(src, s - 1))

\* the character at offset i, outside string literals, can start or continue no token
InvalidCharAt(src, i) ==
    LET c == src[i + 1]
    IN  /\ OutsideString(src, i)
        /\ \/ /\ c \notin Whitespace \cup PunctuationChars
              /\ ~WordChar(c)
              /\ c \notin {"!", "."}
           \/ c = "!" /\ ~(i + 1 < Len(src) /\ src[i + 2] = "=")
           \/ c = "." /\ ~DotInNumber(src, i)

TokensOfType(toks, type) == {i \in DOMAIN toks : toks[i].type = type}

ErrorsWithText(errs, text) == {i \in DOMAIN errs : errs[i].message.text = text}

(***************************************************************************)
(* C4..C9: the tokenizer                                                   *)
(***************************************************************************)

\* C4: every scanning step (one call of scanToken), the error paths included,
\* strictly increases the cursor `current` and never moves it past the end of
\* the source; the loop takes a step only before the end and ends exactly when
\* the cursor is at the source length, so tokenization always terminates.
C4_CursorAdvances ==
    [][ /\ lexer.current <= Len(query)
        /\ (pc' = "tokenize" =>
              /\ lexer.current < Len(query)
              /\ lexer'.current > lexer.current
              /\ lexer'.current <= Len(query))
        /\ (pc' = "tokenized" =>
              /\ lexer.current = Len(query)
              /\ lexer'.current = lexer.current) ]_vars

\* tokenization finished after taking all three error paths
C4_Witness ==
    /\ pc = "tokenized"
    /\ ErrorsWithText(lexer.errors, "Unexpected character") # {}
    /\ ErrorsWithText(lexer.errors, "Unexpected character '!', did you mean '!='?") # {}
    /\ ErrorsWithText(lexer.errors, "Unterminated string literal") # {}

\* C5: the token sequence tokenize() returns is non-empty, its last token is
\* the end-of-input token and no other token is an end-of-input token.
C5_EndOfInputLast ==
    pc = "tokenized" =>
        /\ lexer.tokens # <<>>
        /\ TokensOfType(lexer.tokens, "END_OF_INPUT") = {Len(lexer.tokens)}

\* tokenize() returned for a text with lexical errors and some tokens
C5_Witness ==
    /\ pc = "tokenized"
    /\ lexer.errors # <<>>
    /\ Len(lexer.tokens) > 1

C5_WitnessEmpty == pc = "tokenized" /\ query = <<>>

\* C6: every token a scanning step produces records the 1-indexed line and
\* column of its first character (the character at offset `start`).
C6_TokenAtFirstChar ==
    [][ (pc' = "tokenize" /\ Len(lexer'.tokens) > Len(lexer.tokens)) =>
            LET t == lexer'.tokens[Len(lexer'.tokens)]
            IN  /\ t.line = LineAt(query, lexer'.start)
                /\ t.column = ColAt(query, lexer'.start) ]_vars

\* C7: a text whose last quote opens a string literal that is never closed gets
\* no string-literal token for it and exactly one "Unterminated string literal"
\* diagnostic, at the line and column of the opening quote; with no other
\* invalid character it is the only lexical diagnostic.
C7_UnterminatedString ==
    (pc = "tokenized" /\ HasUnterminatedString(query)) =>
        LET u == ErrorsWithText(lexer.errors, "Unterminated string literal")
            q == OpeningQuote(query)
        IN  /\ Cardinality(u) = 1
            /\ \A i \in u :
                  /\ lexer.errors[i].line = LineAt(query, q)
                  /\ lexer.errors[i].column = ColAt(query, q)
            /\ 2 * Cardinality(TokensOfType(lexer.tokens, "STRING_LITERAL")) + 1
                  = Cardinality(QuoteOffsets(query))
            /\ (\A i \in 0..(Len(query) - 1) : ~InvalidCharAt(query, i))
                  => Len(lexer.errors) = 1

\* an unclosed literal that spans several lines, opened after the first line
C7_Witness ==
    /\ pc = "tokenized"
    /\ HasUnterminatedString(query)
    /\ LineAt(query, OpeningQuote(query)) > 1
    /\ \E i \in (OpeningQuote(query) + 1)..(Len(query) - 1) : query[i + 1] = "\n"
    /\ Len(lexer.errors) = 1

RECURSIVE Flatten(_)
\* the concatenation of a sequence of sequences
Flatten(ss) == IF ss = <<>> THEN <<>> ELSE Head(ss) \o Flatten(Tail(ss))

RECURSIVE StripFrom(_, _)
\* the text from offset i on, without the white space outside string literals
StripFrom(src, i) ==
    IF i >= Len(src) THEN <<>>
    ELSE (IF src[i + 1] \in Whitespace /\ OutsideString(src, i)
          THEN <<>> ELSE <<src[i + 1]>>) \o StripFrom(src, i + 1)

\* the text without any white space
StripAll(s) == SelectSeq(s, LAMBDA c : c \notin Whitespace)

\* the tokens before the end-of-input token
Lexemes(toks) == SubSeq(toks, 1, Len(toks) - 1)

KeywordTypes == {k.type : k \in keywords}

\* a token written out: a string literal between its quotes, any other token
\* as its literal text
Render(t) ==
    IF t.type = "STRING_LITERAL" THEN <<"'">> \o t.value \o <<"'">> ELSE t.value

\* C8 as claimed: with no lexical diagnostic, the literal texts of the tokens
\* in order are the source text modulo white space.
C8_RoundTripLiteral ==
    (pc = "tokenized" /\ lexer.errors = <<>>) =>
        StripAll(Flatten([i \in DOMAIN Lexemes(lexer.tokens) |-> lexer.tokens[i].value]))
            = StripAll(query)

\* C8 as amended: with no lexical diagnostic, the tokens written out in order,
\* each string literal put back between single quotes, are the source text
\* modulo the white space outside string literals and the letter case of
\* keywords, whose literal is upper-cased; and SELECT * FROM employees; yields
\* exactly [SELECT, STAR, FROM, IDENTIFIER("employees"), SEMICOLON, END].
C8_RoundTrip ==
    (pc = "tokenized" /\ lexer.errors = <<>>) =>
        LET toks == Lexemes(lexer.tokens)
            out  == Flatten([i \in DOMAIN toks |-> Render(toks[i])])
            kw   == Flatten([i \in DOMAIN toks |->
                        [j \in DOMAIN Render(toks[i]) |-> toks[i].type \in KeywordTypes]])
            src  == StripFrom(query, 0)
        IN  /\ Len(out) = Len(src)
            /\ \A i \in DOMAIN out :
                  out[i] = (IF kw[i] THEN toupper(src[i]) ELSE src[i])
            /\ query = TextSelectStar =>
                  [i \in DOMAIN lexer.tokens |->
                        <<lexer.tokens[i].type, lexer.tokens[i].value>>]
                    = << <<"KEYWORD_SELECT", wSELECT>>, <<"OP_STAR", <<"*">>>>,
                         <<"KEYWORD_FROM", wFROM>>, <<"IDENTIFIER", wemployees>>,
                         <<"OP_SEMICOLON", <<";">>>>, <<"END_OF_INPUT", <<>>>> >>

\* a clean text with lower-case keywords and a string literal holding a space
C8_Witness ==
    /\ pc = "tokenized"
    /\ lexer.errors = <<>>
    /\ query = TextLowerCase
    /\ \E i \in TokensOfType(lexer.tokens, "STRING_LITERAL") :
            " " \in Range(lexer.tokens[i].value)

\* the identifier-shaped runs of the text outside string literals: <<i, j>>, the
\* offsets of the first and last character of a maximal run of letters, digits
\* and underscores that starts with a letter or an underscore
WordRuns(src) ==
    {r \in (0..(Len(src) - 1)) \X (0..(Len(src) - 1)) :
        /\ r[1] <= r[2]
        /\ \A k \in r[1]..r[2] : WordChar(src[k + 1])
        /\ (r[1] = 0 \/ ~WordChar(src[r[1]]))
        /\ (r[2] = Len(src) - 1 \/ ~WordChar(src[r[2] + 2]))
        /\ (isalpha(src[r[1] + 1]) \/ src[r[1] + 1] = "_")
        /\ OutsideString(src, r[1])}

NoDiagnostics ==
    /\ lexer # Null /\ lexer.errors = <<>>
    /\ parser # Null /\ parser.errors = <<>>
    /\ semanticAnalyzer # Null /\ semanticAnalyzer.errors = <<>>
    /\ errorHandler = <<>>

\* C1: when the tokenization of a statement has recorded a lexical
\* diagnostic, compileAndExecute returns without making the parser, the
\* semantic analyzer or the executor, so the statement has no syntax and no
\* semantic diagnostic and the error handler holds the lexical ones only.
C1_FailClosed ==
    (lexer # Null /\ lexer.errors # <<>>) =>
        /\ pc = "returned"
        /\ parser = Null
        /\ parseTree = Null
        /\ semanticAnalyzer = Null
        /\ executed = Null
        /\ getErrorsByType(errorHandler, "SYNTAX_ERROR") = <<>>
        /\ getErrorsByType(errorHandler, "SEMANTIC_ERROR") = <<>>
        /\ errorHandler = lexer.errors

\* a statement with a lexical diagnostic has gone through compileAndExecute,
\* and all it has before the bad text is a statement the parser accepts
C1_Witness ==
    /\ pc = "returned"
    /\ lexer # Null
    /\ lexer.errors # <<>>
    /\ errorHandler = lexer.errors
    /\ \E ws \in BaseWords : query = Join(ws \o << <<"'","a">> >>)

\* C2: when parse() has recorded a syntax diagnostic, whether it returned a
\* tree or not, compileAndExecute returns without making the semantic
\* analyzer or the executor, so the statement has no semantic diagnostic.
C2_SyntaxErrorsStop ==
    (parser # Null /\ parser.errors # <<>>) =>
        /\ pc = "returned"
        /\ semanticAnalyzer = Null
        /\ semanticValid = FALSE
        /\ syntaxValid = FALSE
        /\ executed = Null
        /\ getErrorsByType(errorHandler, "SEMANTIC_ERROR") = <<>>
        /\ errorHandler = parser.errors

\* parse() has recorded a syntax diagnostic and yet returned a tree
C2_Witness ==
    /\ pc = "returned"
    /\ parser # Null
    /\ parser.errors # <<>>
    /\ parseTree # Null

\* parse() has recorded a syntax diagnostic and returned no tree
C2_WitnessNoTree ==
    /\ pc = "returned"
    /\ parser # Null
    /\ parser.errors # <<>>
    /\ parseTree = Null

\* C3: over any sequence of compileAndExecute calls, a step runs the
\* executor or changes the rows of the data store only for a statement whose
\* lexical, syntax and semantic diagnostic lists are all empty and whose
\* tree is non-null; every statement with a diagnostic leaves the rows as
\* they were.
C3_ExecutorGated ==
    [][ (executed' # Null \/ globalDataStore' # globalDataStore) =>
            /\ NoDiagnostics'
            /\ parseTree' # Null
            /\ syntaxValid' /\ semanticValid' ]_vars

\* the executor has run in the second call and changed rows that the first
\* call had changed already
C3_Witness ==
    /\ calls = 2
    /\ pc = "returned"
    /\ executed # Null
    /\ executed.success
    /\ executed.affectedRows > 0
    /\ Len(globalDataStore[wusers].rows) < Len(DataStore[wusers].rows) - 1

\* C10: parse() records no syntax diagnostic only if the last token before
\* the end-of-input token is the ';' that ends the statement: any token
\* between the terminating ';' and the end of input is rejected with a
\* syntax diagnostic.
C10_StrictTerminator ==
    (parser # Null /\ parser.errors = <<>>) =>
        /\ parser.current + 1 = Len(parser.tokens)
        /\ Len(parser.tokens) >= 2
        /\ parser.tokens[Len(parser.tokens) - 1].type = "OP_SEMICOLON"

(***************************************************************************)
(* Claims about the parser                                                 *)
(***************************************************************************)
\* C11: one call of parse() records at most one syntax diagnostic: after
\* the first grammar violation nothing more is reported for the statement.
C11_SingleError ==
    parser # Null => Len(parser.errors) <= 1

\* C12: whenever parse() has recorded a syntax diagnostic it returns a null
\* root; a non-null root comes only with an empty syntax diagnostic list.
C12_NoPartialTree ==
    (parser # Null /\ parser.errors # <<>>) => parseTree = Null

RECURSIVE Nodes(_)
\* the nodes of a tree
Nodes(node) ==
    {node} \cup UNION { Nodes(node.children[i]) : i \in DOMAIN node.children }

childTypes(node) == [i \in DOMAIN node.children |-> node.children[i].type]

\* C13: every non-null root parse() returns is of one of the four query
\* kinds, every WHERE_CLAUSE node of it has exactly one child, a CONDITION,
\* and every CONDITION node has exactly the three children COLUMN, OPERATOR,
\* VALUE in that order.
C13_AstShape ==
    (parser # Null /\ parseTree # Null) =>
        /\ parseTree.type \in {"QUERY", "INSERT_QUERY", "UPDATE_QUERY", "DELETE_QUERY"}
        /\ \A n \in Nodes(parseTree) :
            /\ n.type = "WHERE_CLAUSE" => childTypes(n) = <<"CONDITION">>
            /\ n.type = "CONDITION" =>
                    childTypes(n) = <<"COLUMN", "OPERATOR", "VALUE">>

\* parse() has returned an UPDATE tree that has a WHERE clause
C13_Witness ==
    /\ parser # Null
    /\ parseTree # Null
    /\ parseTree.type = "UPDATE_QUERY"
    /\ \E n \in Nodes(parseTree) : n.type = "CONDITION"

(***************************************************************************)
(* Claims about semantic analysis                                          *)
(***************************************************************************)
\* the semantic analyzer of a first call of compileAndExecute on the text,
\* after its analyze()
Analyzed(text) ==
    analyze(SemanticAnalyzer, parse(Parser(tokenize(Lexer(text)).tokens)).node)

\* semantic analysis has run in the current call
AnalysisDone == pc \in {"execution", "returned"} /\ semanticAnalyzer # Null

\* the catalog statements: the text, the table of the catalog it names, and
\* the text with the table written as in the catalog
CatalogTexts ==
    { [text |-> Join(Fill(form, t)), table |-> n, canonical |-> Join(Fill(form, n))] :
        form \in CatalogForms,
        <<n, t>> \in UNION { {n} \X Cased(n) : n \in CatalogTableWords } }

\* C14: for every table name of the catalog and every statement kind,
\* the statement with the table written in lower case, in upper case or
\* capitalised resolves to that catalog table and gets the very semantic
\* diagnostics of the statement with the table written as in the catalog.
C14_CaseInsensitiveTable ==
    AnalysisDone =>
        \A c \in CatalogTexts :
            query = c.text =>
                /\ semanticAnalyzer.currentTable = c.table
                /\ semanticAnalyzer.errors = Analyzed(c.canonical).errors

\* an UPDATE of PRODUCTS, written in upper case, was resolved to products and
\* got diagnostics
C14_Witness ==
    /\ AnalysisDone
    /\ \E form \in CatalogForms :
         /\ form[1] = wUPDATE
         /\ query = Join(Fill(form, ToUpperStr(wproducts)))
    /\ semanticAnalyzer.currentTable = wproducts
    /\ semanticAnalyzer.errors # <<>>

\* the table references of a tree, as written
TableRefs(tree) == { n.value : n \in { m \in Nodes(tree) : m.type = "TABLE_NAME" } }

CatalogNames == { t.name : t \in symbolTable }

\* every table reference of the tree names, in some case, a catalog table
Resolves(tree) == \A ref \in TableRefs(tree) : ToLowerStr(ref) \in CatalogNames

TableErrorTexts ==
    { "Table '%' does not exist. Available tables: %", "Table '%' does not exist." }

ColumnErrorText == "Column '%' does not exist in table '%'. Available columns: %"

\* the diagnostics of the list with the given message text, in order
WithText(errs, text) == SelectSeq(errs, LAMBDA e : e.message.text = text)

\* C15: when the table reference of a parsed statement (SELECT, INSERT,
\* UPDATE or DELETE) is not a table of the catalog, semantic analysis records
\* the table-does-not-exist diagnostic for it and nothing else (no column
\* diagnostic for any column of the statement), and it fails.
C15_NoColumnCheckWithoutTable ==
    (AnalysisDone /\ ~Resolves(parseTree)) =>
        /\ Len(semanticAnalyzer.errors) = 1
        /\ semanticAnalyzer.errors[1].message.text \in TableErrorTexts
        /\ semanticAnalyzer.errors[1].message.args[1] \in TableRefs(parseTree)
        /\ WithText(semanticAnalyzer.errors, ColumnErrorText) = <<>>
        /\ ~semanticValid
        /\ executed = Null

\* a SELECT from an unknown table with an unknown column in its list and in
\* its WHERE clause was analysed
C15_Witness ==
    /\ AnalysisDone
    /\ ~Resolves(parseTree)
    /\ parseTree.type = "QUERY"
    /\ Cardinality({ n \in Nodes(parseTree) : n.type = "COLUMN" /\ n.value = wghost }) = 1
    /\ \E n \in Nodes(parseTree) : n.type = "CONDITION" /\ n.children[1].value = wghost

\* the same for an UPDATE of an unknown table
C15_WitnessUpdate ==
    /\ AnalysisDone
    /\ ~Resolves(parseTree)
    /\ parseTree.type = "UPDATE_QUERY"
    /\ \E n \in Nodes(parseTree) : n.type = "CONDITION" /\ n.children[1].value = wghost

RECURSIVE ColumnRefs(_, _)
\* the values of the COLUMN nodes of a tree from its child i on (the node
\* itself first when i = 0), in the order of the text
ColumnRefs(node, i) ==
    IF i = 0
    THEN (IF node.type = "COLUMN" THEN <<node.value>> ELSE <<>>)
            \o ColumnRefs(node, 1)
    ELSE IF i > Len(node.children) THEN <<>>
    ELSE ColumnRefs(node.children[i], 0) \o ColumnRefs(node, i + 1)

\* the catalog table a resolving tree names
ResolvedTable(tree) ==
    CHOOSE t \in symbolTable : \E ref \in TableRefs(tree) : ToLowerStr(ref) = t.name

\* the column references of the tree that name no column of the table
Offending(tree, table) ==
    SelectSeq(ColumnRefs(tree, 0),
              LAMBDA c : /\ c # <<"*">>
                         /\ \A k \in DOMAIN table.columns :
                                table.columns[k].name # ToLowerStr(c))

\* C16: for a parsed statement whose table resolves, the column
\* diagnostics are, in order, one for each column reference (select list, SET
\* target, WHERE column, INSERT column list) whose lower-cased name is not a
\* column of the table, and none for any other reference or for `*`; each
\* names the column as written and the table and lists the table's columns.
\* `SELECT ghost FROM employees;` gets exactly one semantic diagnostic and
\* `SELECT * FROM employees WHERE age > 25;` gets none.
C16_ColumnValidation ==
    (AnalysisDone /\ Resolves(parseTree)) =>
        LET table == ResolvedTable(parseTree)
            bad == Offending(parseTree, table)
            diags == WithText(semanticAnalyzer.errors, ColumnErrorText)
        IN  /\ Len(diags) = Len(bad)
            /\ \A i \in DOMAIN diags :
                 diags[i].message.args
                    = <<bad[i], table.name>>
                        \o [k \in DOMAIN table.columns |-> table.columns[k].name]
            /\ (query = ExampleSelectGhost =>
                    Len(semanticAnalyzer.errors) = 1 /\ bad = <<wghost>>)
            /\ (query = ExampleSelectStar => semanticAnalyzer.errors = <<>>)

\* `SELECT ghost FROM employees;` was analysed
C16_Witness ==
    /\ AnalysisDone
    /\ query = ExampleSelectGhost
    /\ Len(semanticAnalyzer.errors) = 1

\* `SELECT * FROM employees WHERE age > 25;` was analysed and is executed
C16_WitnessStar == AnalysisDone /\ query = ExampleSelectStar /\ executed # Null

\* a statement with an unknown and a known column in its INSERT column list
C16_WitnessInsert ==
    /\ AnalysisDone
    /\ parseTree.type = "INSERT_QUERY"
    /\ Resolves(parseTree)
    /\ ColumnRefs(parseTree, 0) = <<wghost, wid>>

\* an upper-case reference to a column of the table
C16_WitnessUpper ==
    /\ AnalysisDone
    /\ Resolves(parseTree)
    /\ ColumnRefs(parseTree, 0) = <<wID, wage>>
    /\ semanticAnalyzer.errors = <<>>

CountErrorText == "Column count (%) does not match value count (%)"

\* the number of nodes of the given type in a tree
CountOf(tree, type) == Cardinality({ n \in Nodes(tree) : n.type = type })

Digit(n) == <<"0","1","2","3","4","5","6","7","8","9">>[n + 1]

\* C17: for a parsed INSERT whose table resolves there is exactly one
\* count-mismatch diagnostic, giving both counts, when the number of listed
\* columns differs from the number of values, and none when they are equal,
\* whether or not the listed columns exist;
\* `INSERT INTO employees (id, name) VALUES (1);` gets exactly one semantic
\* diagnostic.
C17_InsertArity ==
    (AnalysisDone /\ parseTree.type = "INSERT_QUERY" /\ Resolves(parseTree)) =>
        LET ncolumns == Len(ColumnRefs(parseTree, 0))
            nvalues  == Len(lastChildOf(parseTree, "VALUE_LIST").children)
            diags == WithText(semanticAnalyzer.errors, CountErrorText)
        IN  /\ Len(diags) = IF ncolumns # nvalues THEN 1 ELSE 0
            /\ \A i \in DOMAIN diags :
                 diags[i].message.args = << <<Digit(ncolumns)>>, <<Digit(nvalues)>> >>
            /\ (query = ExampleInsertArity =>
                    /\ Len(semanticAnalyzer.errors) = 1
                    /\ ncolumns = 2 /\ nvalues = 1)

\* `INSERT INTO employees (id, name) VALUES (1);` was analysed
C17_Witness ==
    /\ AnalysisDone
    /\ query = ExampleInsertArity
    /\ WithText(semanticAnalyzer.errors, CountErrorText) # <<>>

\* a count mismatch together with an unknown column
C17_WitnessUnknownColumn ==
    /\ AnalysisDone
    /\ parseTree.type = "INSERT_QUERY"
    /\ WithText(semanticAnalyzer.errors, CountErrorText) # <<>>
    /\ WithText(semanticAnalyzer.errors, ColumnErrorText) # <<>>

\* equal counts together with an unknown column
C17_WitnessEqual ==
    /\ AnalysisDone
    /\ parseTree.type = "INSERT_QUERY"
    /\ Resolves(parseTree)
    /\ WithText(semanticAnalyzer.errors, ColumnErrorText) # <<>>
    /\ WithText(semanticAnalyzer.errors, CountErrorText) = <<>>

\* fewer columns than values
C17_WitnessFewer ==
    /\ AnalysisDone
    /\ parseTree.type = "INSERT_QUERY"
    /\ Resolves(parseTree)
    /\ Len(ColumnRefs(parseTree, 0)) = 1
    /\ WithText(semanticAnalyzer.errors, CountErrorText) # <<>>

\* the diagnostics the statement of the tree calls for: one for a table that
\* does not resolve or else one for each offending column reference, and one
\* for an INSERT whose column and value counts differ
DiagnosticsDue(tree) ==
    (IF Resolves(tree) THEN Len(Offending(tree, ResolvedTable(tree))) ELSE 1)
    + (IF /\ tree.type = "INSERT_QUERY"
          /\ Len(ColumnRefs(tree, 0)) # CountOf(tree, "VALUE")
       THEN 1 ELSE 0)

\* C18: semantic analysis does not stop at its first error: every
\* diagnostic the statement calls for is recorded in the one pass (no column
\* being checked without a resolved table), and analyze() returns pass
\* exactly when it recorded no diagnostic.
C18_NeverStopsAtFirstError ==
    AnalysisDone =>
        /\ semanticValid = (semanticAnalyzer.errors = <<>>)
        /\ Len(semanticAnalyzer.errors) = DiagnosticsDue(parseTree)

\* the part of C18 that holds: the verdict is the emptiness of the diagnostic
\* list, and with a resolved table every diagnostic due is recorded
C18_ResolvedAccumulates ==
    AnalysisDone =>
        /\ semanticValid = (semanticAnalyzer.errors = <<>>)
        /\ Resolves(parseTree) =>
              Len(semanticAnalyzer.errors) = DiagnosticsDue(parseTree)

\* an unknown select-list column and an unknown WHERE column, both reported
C18_WitnessTwoColumns ==
    /\ AnalysisDone
    /\ parseTree.type = "QUERY"
    /\ Resolves(parseTree)
    /\ Len(WithText(semanticAnalyzer.errors, ColumnErrorText)) = 2
    /\ ~semanticValid

\* the tree has a WHERE condition that compares an INT or FLOAT column of its
\* table with a literal whose first character is not a digit
NumericMismatch(tree) ==
    /\ Resolves(tree)
    /\ \E n \in Nodes(tree) :
         /\ n.type = "CONDITION"
         /\ ~isdigit(n.children[3].value[1])
         /\ \E k \in DOMAIN ResolvedTable(tree).columns :
              /\ ResolvedTable(tree).columns[k].name = ToLowerStr(n.children[1].value)
              /\ ResolvedTable(tree).columns[k].dataType \in {"INT", "FLOAT"}

RECURSIVE NumericValues(_)
\* the tree with every value replaced by the number 1
NumericValues(node) ==
    [type |-> node.type,
     value |-> IF node.type = "VALUE" THEN <<"1">> ELSE node.value,
     children |-> [i \in DOMAIN node.children |-> NumericValues(node.children[i])]]

\* C19: a WHERE condition that compares a numeric (INT or FLOAT) column
\* of the table with a literal not starting with a digit adds no semantic
\* diagnostic and does not change the result of analyze(): the diagnostics and
\* the verdict are those of the same statement with a numeric literal.
C19_TypeCheckAdvisory ==
    (AnalysisDone /\ NumericMismatch(parseTree)) =>
        LET numeric == analyze(SemanticAnalyzer, NumericValues(parseTree))
        IN  /\ numeric.warnings = <<>>
            /\ semanticAnalyzer.errors = numeric.errors
            /\ semanticValid = (numeric.errors = <<>>)

\* a statement whose condition got the warning passed analysis
C19_Witness ==
    /\ AnalysisDone
    /\ NumericMismatch(parseTree)
    /\ semanticAnalyzer.warnings # <<>>
    /\ semanticValid

\* a statement whose condition got the warning failed for another reason
C19_WitnessFailed ==
    /\ AnalysisDone
    /\ NumericMismatch(parseTree)
    /\ semanticAnalyzer.warnings # <<>>
    /\ Len(semanticAnalyzer.errors) = 1

(***************************************************************************)
(* Claims about a sequence of calls                                        *)
(***************************************************************************)
\* the diagnostic lists of the three phases of a call, <<>> standing for a
\* phase that did not run
PhaseDiagnostics(lexical, syntax, semantic) ==
    [lexical |-> lexical, syntax |-> syntax, semantic |-> semantic]

FreshSemantic(R) ==
    IF R.p.errors # <<>> THEN <<>>
    ELSE <<analyze(SemanticAnalyzer, R.node).errors>>

FreshSyntax(L, R) == PhaseDiagnostics(L.errors, <<R.p.errors>>, FreshSemantic(R))

FreshLexical(L) ==
    IF L.errors # <<>> THEN PhaseDiagnostics(L.errors, <<>>, <<>>)
    ELSE FreshSyntax(L, parse(Parser(L.tokens)))

\* the diagnostics of a first call of compileAndExecute on the text in a
\* fresh process, computed from the text alone
Fresh(text) == FreshLexical(tokenize(Lexer(text)))

\* all the diagnostics of the phases that ran, in the order of the phases
AllOf(d) ==
    d.lexical \o (IF d.syntax = <<>> THEN <<>> ELSE d.syntax[1])
              \o (IF d.semantic = <<>> THEN <<>> ELSE d.semantic[1])

\* the schema the global data store holds for each of its tables
SchemaOf(store) == [n \in DOMAIN store |-> store[n].schema]

\* C20: over any sequence of compileAndExecute calls, whatever rows the
\* earlier statements inserted, updated or deleted, the schema catalog stays
\* as it was built (the same tables with the same columns, also in the global
\* store made from it), and when a call returns its lexical, syntax and
\* semantic diagnostics are those its text gets as the first statement of a
\* fresh process: nothing of an earlier call is left in them.
C20_NoSharedState ==
    /\ SchemaOf(globalDataStore) = [n \in CatalogNames |-> getTable(n)]
    /\ pc = "returned" =>
         /\ PhaseDiagnostics(lexer.errors,
                             IF parser = Null THEN <<>> ELSE <<parser.errors>>,
                             IF semanticAnalyzer = Null THEN <<>>
                             ELSE <<semanticAnalyzer.errors>>)
              = Fresh(query)
         /\ errorHandler = AllOf(Fresh(query))

\* a second call reads the table users after the first call deleted all its
\* rows
C20_Witness ==
    /\ calls = 2
    /\ pc = "returned"
    /\ globalDataStore[wusers].rows = <<>>
    /\ \E ws \in SelectWords : query = Join(ws)
    /\ executed # Null

\* a second call reports semantic diagnostics after the first call changed
\* the store
C20_WitnessDiagnostics ==
    /\ calls = 2
    /\ pc = "returned"
    /\ globalDataStore # DataStore
    /\ semanticAnalyzer # Null
    /\ Len(errorHandler) = 2

\* a second call ends in its lexical phase after the first call changed the
\* store
C20_WitnessLexical ==
    /\ calls = 2
    /\ pc = "returned"
    /\ globalDataStore # DataStore
    /\ lexer.errors # <<>>

(***************************************************************************)
(* C21..C23: the tokenizer, continued                                      *)
(***************************************************************************)
\* the two-character operator that starts with the character, and the
\* one-character operator it is alone
TwoCharType(c) ==
    CASE c = "!" -> "OP_NOT_EQUALS"
      [] c = "<" -> "OP_LESS_EQUALS"
      [] c = ">" -> "OP_GREATER_EQUALS"

OneCharType(c) == IF c = "<" THEN "OP_LESS_THAN" ELSE "OP_GREATER_THAN"

\* the tokens and diagnostics a scanning step added
NewTokens(before, after) == SubSeq(after.tokens, Len(before.tokens) + 1, Len(after.tokens))

NewErrors(before, after) == SubSeq(after.errors, Len(before.errors) + 1, Len(after.errors))

\* C21: a scanning step never starts inside a string literal, and one
\* that starts at '!', '<' or '>' followed by '=' consumes both characters and
\* adds the one two-character operator token; at '<' or '>' not followed by
\* '=' it consumes that character and adds the one-character operator token;
\* at '!' not followed by '=' it consumes only the '!', adds no token and
\* records exactly one lexical diagnostic.
C21_GreedyOperators ==
    [][ pc' = "tokenize" =>
          LET at == lexer.current
              c == query[at + 1]
              followed == at + 1 < Len(query) /\ query[at + 2] = "="
              toks == NewTokens(lexer, lexer')
              errs == NewErrors(lexer, lexer')
          IN  /\ Cardinality({q \in QuoteOffsets(query) : q < at}) % 2 = 0
              /\ (c \in {"!", "<", ">"} /\ followed) =>
                    /\ lexer'.current = at + 2
                    /\ Len(toks) = 1 /\ errs = <<>>
                    /\ toks[1].type = TwoCharType(c)
                    /\ toks[1].value = <<c, "=">>
              /\ (c \in {"<", ">"} /\ ~followed) =>
                    /\ lexer'.current = at + 1
                    /\ Len(toks) = 1 /\ errs = <<>>
                    /\ toks[1].type = OneCharType(c)
                    /\ toks[1].value = <<c>>
              /\ (c = "!" /\ ~followed) =>
                    /\ lexer'.current = at + 1
                    /\ toks = <<>>
                    /\ Len(errs) = 1
                    /\ errs[1].message.text
                         = "Unexpected character '!', did you mean '!='?" ]_vars

\* a text with '<=', a lone '<' and a lone '!' was tokenized
C21_Witness ==
    /\ pc = "tokenized"
    /\ TokensOfType(lexer.tokens, "OP_LESS_EQUALS") # {}
    /\ TokensOfType(lexer.tokens, "OP_LESS_THAN") # {}
    /\ Len(lexer.errors) = 1
    /\ \E i \in DOMAIN query : query[i] = "!"

\* a text with '!=' and '<=' was tokenized
C21_WitnessPairs ==
    /\ pc = "tokenized"
    /\ TokensOfType(lexer.tokens, "OP_NOT_EQUALS") # {}
    /\ TokensOfType(lexer.tokens, "OP_LESS_EQUALS") # {}

\* a text with '>' and '>=' was tokenized
C21_WitnessGreater ==
    /\ pc = "tokenized"
    /\ TokensOfType(lexer.tokens, "OP_GREATER_THAN") # {}
    /\ TokensOfType(lexer.tokens, "OP_GREATER_EQUALS") # {}

\* '!=' inside a string literal is no operator
C21_WitnessInString ==
    /\ pc = "tokenized"
    /\ query = <<"'", "!", "=", "'">>
    /\ Len(lexer.tokens) = 2

RECURSIVE DigitsEnd(_, _)
\* the offset just after the run of digits that starts at offset i
DigitsEnd(src, i) ==
    IF i < Len(src) /\ isdigit(src[i + 1]) THEN DigitsEnd(src, i + 1) ELSE i

\* where the numeric literal that starts at offset i ends: after its digits,
\* and after a '.' and more digits if a digit follows the '.'
NumberEnd(src, i) ==
    LET d == DigitsEnd(src, i)
    IN  IF d + 1 < Len(src) /\ src[d + 1] = "." /\ isdigit(src[d + 2])
        THEN DigitsEnd(src, d + 1)
        ELSE d

\* one or more digits, optionally followed by '.' and one or more digits
IsNumberText(s) ==
    /\ s # <<>>
    /\ \A i \in DOMAIN s : isdigit(s[i]) \/ s[i] = "."
    /\ Cardinality({i \in DOMAIN s : s[i] = "."}) <= 1
    /\ isdigit(s[1]) /\ isdigit(s[Len(s)])

\* C22: the text of every NUMBER token is one or more digits optionally
\* followed by '.' and one or more digits, so it never ends in '.'; the
\* scanning step that starts at a digit consumes the digits and, only when a
\* digit follows it, a '.' with the digits after it, and its token is exactly
\* the text consumed: after `1.` or `1.o` the token is `1` and the '.' is left
\* to the next step.
C22_NumericLiterals ==
    [][ pc' = "tokenize" =>
          /\ \A i \in TokensOfType(lexer'.tokens, "NUMBER") :
                IsNumberText(lexer'.tokens[i].value)
          /\ isdigit(query[lexer.current + 1]) =>
                LET toks == NewTokens(lexer, lexer')
                IN  /\ lexer'.current = NumberEnd(query, lexer.current)
                    /\ Len(toks) = 1
                    /\ toks[1].type = "NUMBER"
                    /\ toks[1].value
                         = SubSeq(query, lexer.current + 1, lexer'.current)
                    /\ NewErrors(lexer, lexer') = <<>> ]_vars

\* `1.o`: the number 1, the '.' left to the next step, then an identifier
C22_Witness ==
    /\ pc = "tokenized"
    /\ query = <<"1", ".", "o">>
    /\ Len(lexer.tokens) = 3
    /\ lexer.tokens[1].value = <<"1">>
    /\ lexer.tokens[2].type = "IDENTIFIER"
    /\ Len(lexer.errors) = 1

\* `1.` at the end of the text
C22_WitnessDotAtEnd ==
    /\ pc = "tokenized"
    /\ query = <<"1", "1", ".">>
    /\ lexer.tokens[1].value = <<"1", "1">>
    /\ Len(lexer.errors) = 1

\* a number with a fractional part
C22_WitnessFraction ==
    /\ pc = "tokenized"
    /\ Len(lexer.tokens) = 2
    /\ lexer.tokens[1].value = <<"1", ".", "1", "1">>

\* a character that starts no token: no white space, no operator or
\* punctuation character, no quote, letter, underscore or digit
StartsNoToken(c) ==
    /\ c \notin Whitespace \cup PunctuationChars \cup {"!", "'"}
    /\ ~WordChar(c)

\* the offsets of the characters outside string literals that start no token
NoTokenOffsets(src) ==
    {i \in 0..(Len(src) - 1) : OutsideString(src, i) /\ StartsNoToken(src[i + 1])}

\* the text with the characters at the given offsets replaced by spaces
Blanked(src, offsets) ==
    [i \in DOMAIN src |-> IF (i - 1) \in offsets THEN " " ELSE src[i]]

\* the kinds and literal texts of the tokens, in order
KindsAndTexts(toks) == [i \in DOMAIN toks |-> <<toks[i].type, toks[i].value>>]

\* C23 as claimed: the number of unexpected-character diagnostics of a
\* text is the number of its characters outside string literals that start no
\* token.
C23_OnePerCharacter ==
    pc = "tokenized" =>
        Cardinality(ErrorsWithText(lexer.errors, "Unexpected character"))
            = Cardinality(NoTokenOffsets(query))

\* C23 as amended: a scanning step that starts at a character that
\* starts no token consumes exactly that character, adds no token and records
\* exactly one unexpected-character diagnostic, naming the character, at its
\* line and column; the unexpected-character diagnostics of a text are as many
\* as its characters outside string literals that start no token and are not
\* the decimal point of a numeric literal, and the tokens of the text are
\* those of the text with these characters replaced by spaces.
C23_ErrorRecovery ==
    [][ /\ (pc' = "tokenize" /\ StartsNoToken(query[lexer.current + 1])) =>
              LET errs == NewErrors(lexer, lexer')
              IN  /\ lexer'.current = lexer.current + 1
                  /\ NewTokens(lexer, lexer') = <<>>
                  /\ Len(errs) = 1
                  /\ errs[1].message = Msg("Unexpected character",
                                           <<query[lexer.current + 1]>>)
                  /\ errs[1].line = LineAt(query, lexer.current)
                  /\ errs[1].column = ColAt(query, lexer.current)
        /\ pc' = "tokenized" =>
              LET skipped == {i \in NoTokenOffsets(query) :
                                ~(query[i + 1] = "." /\ DotInNumber(query, i))}
              IN  /\ Cardinality(ErrorsWithText(lexer'.errors, "Unexpected character"))
                        = Cardinality(skipped)
                  /\ KindsAndTexts(lexer'.tokens)
                        = KindsAndTexts(tokenize(Lexer(Blanked(query, skipped))).tokens)
      ]_vars

\* two unexpected characters with a token between them and one after them
C23_Witness ==
    /\ pc = "tokenized"
    /\ query = <<"#", "o", ".", "1">>
    /\ Len(lexer.errors) = 2
    /\ Len(lexer.tokens) = 3

\* an unexpected character on the second line
C23_WitnessSecondLine ==
    /\ pc = "tokenized"
    /\ Len(lexer.errors) = 1
    /\ lexer.errors[1].line = 2
    /\ lexer.errors[1].column = 2
    /\ lexer.errors[1].message.args = << "#" >>

\* a decimal point, which is no unexpected character
C23_WitnessDecimalPoint ==
    /\ pc = "tokenized"
    /\ query = <<"1", ".", "1">>
    /\ lexer.errors = <<>>

(***************************************************************************)
(* C24..C29: the parser, continued                                         *)
(***************************************************************************)
\* The grammar of the statements, read off the kinds of the tokens alone.
\* Each operator gives the position after the phrase that starts at position
\* i of the kinds k, or 0 if no such phrase starts there.
ValueKinds == {"IDENTIFIER", "NUMBER", "STRING_LITERAL"}

RelOpKinds ==
    {"OP_EQUALS", "OP_NOT_EQUALS", "OP_LESS_THAN", "OP_LESS_EQUALS",
     "OP_GREATER_THAN", "OP_GREATER_EQUALS"}

RECURSIVE MoreOf(_, _, _)
\* (',' x)*  for x of the given kinds
MoreOf(k, i, kinds) ==
    IF k[i] # "OP_COMMA" THEN i
    ELSE IF k[i + 1] \in kinds THEN MoreOf(k, i + 2, kinds)
    ELSE 0

\* the kinds in order at position i
Phrase(k, i, kinds) ==
    IF i # 0 /\ i + Len(kinds) - 1 <= Len(k)
            /\ \A j \in DOMAIN kinds : k[i + j - 1] = kinds[j]
    THEN i + Len(kinds) ELSE 0

\* x (',' x)*
ListOf(k, i, kinds) ==
    IF i # 0 /\ k[i] \in kinds THEN MoreOf(k, i + 1, kinds) ELSE 0

\* [WHERE IDENT rel-op value] ';'
WhereAndSemicolon(k, i) ==
    IF i = 0 THEN 0
    ELSE IF k[i] = "KEYWORD_WHERE"
    THEN IF /\ i + 4 <= Len(k)
            /\ k[i + 1] = "IDENTIFIER"
            /\ k[i + 2] \in RelOpKinds
            /\ k[i + 3] \in ValueKinds
            /\ k[i + 4] = "OP_SEMICOLON"
         THEN i + 5 ELSE 0
    ELSE IF k[i] = "OP_SEMICOLON" THEN i + 1 ELSE 0

SelectStmt(k) ==
    LET c == IF Phrase(k, 1, <<"KEYWORD_SELECT", "OP_STAR">>) # 0 THEN 3
             ELSE ListOf(k, Phrase(k, 1, <<"KEYWORD_SELECT">>), {"IDENTIFIER"})
    IN  WhereAndSemicolon(k, Phrase(k, c, <<"KEYWORD_FROM", "IDENTIFIER">>))

InsertValues(k, i) ==
    Phrase(k, ListOf(k, Phrase(k, i, <<"OP_RPAREN", "KEYWORD_VALUES", "OP_LPAREN">>),
                     ValueKinds),
           <<"OP_RPAREN", "OP_SEMICOLON">>)

InsertStmt(k) ==
    InsertValues(k,
        ListOf(k, Phrase(k, 1, <<"KEYWORD_INSERT", "KEYWORD_INTO", "IDENTIFIER",
                                 "OP_LPAREN">>),
               {"IDENTIFIER"}))

UpdateStmt(k) ==
    LET v == Phrase(k, 1, <<"KEYWORD_UPDATE", "IDENTIFIER", "KEYWORD_SET",
                            "IDENTIFIER", "OP_EQUALS">>)
    IN  WhereAndSemicolon(k, IF v # 0 /\ k[v] \in ValueKinds THEN v + 1 ELSE 0)

DeleteStmt(k) ==
    WhereAndSemicolon(k, Phrase(k, 1, <<"KEYWORD_DELETE", "KEYWORD_FROM",
                                        "IDENTIFIER">>))

\* the token sequence is a statement of the grammar followed by end of input
IsSentence(toks) ==
    LET k == [i \in DOMAIN toks |-> toks[i].type]
    IN  Len(k) \in {SelectStmt(k), InsertStmt(k), UpdateStmt(k), DeleteStmt(k)}

\* the root kind that goes with the first token
RootKind(toks) ==
    CASE toks[1].type = "KEYWORD_INSERT" -> "INSERT_QUERY"
      [] toks[1].type = "KEYWORD_UPDATE" -> "UPDATE_QUERY"
      [] toks[1].type = "KEYWORD_DELETE" -> "DELETE_QUERY"
      [] OTHER -> "QUERY"

\* the clauses of a statement in the order of its production
ClauseKinds(toks) ==
    (CASE toks[1].type = "KEYWORD_INSERT" -> <<"TABLE_NAME", "COLUMN_LIST", "VALUE_LIST">>
       [] toks[1].type = "KEYWORD_UPDATE" -> <<"TABLE_NAME", "SET_CLAUSE">>
       [] toks[1].type = "KEYWORD_DELETE" -> <<"FROM_CLAUSE">>
       [] OTHER -> <<"SELECT_CLAUSE", "FROM_CLAUSE">>)
    \o (IF \E i \in DOMAIN toks : toks[i].type = "KEYWORD_WHERE"
        THEN <<"WHERE_CLAUSE">> ELSE <<>>)

RECURSIVE Leaves(_, _)
\* the values of the leaves of a tree from its child i on (of the node itself
\* when it has no child), in order
Leaves(node, i) ==
    IF node.children = <<>> THEN <<node.value>>
    ELSE IF i > Len(node.children) THEN <<>>
    ELSE Leaves(node.children[i], 1) \o Leaves(node, i + 1)

\* the texts of the names, values, `*` and relational operators of the
\* tokens, in order (the '=' of SET, the fifth token of an UPDATE, is none)
Operands(toks) ==
    LET at == {i \in DOMAIN toks :
                 /\ toks[i].type \in ValueKinds \cup RelOpKinds \cup {"OP_STAR"}
                 /\ ~(toks[1].type = "KEYWORD_UPDATE" /\ i = 5)}
        pick == SelectSeq([i \in DOMAIN toks |-> i], LAMBDA i : i \in at)
    IN  [j \in DOMAIN pick |-> toks[pick[j]].value]

C24_WitnessUpdate ==
    /\ parser # Null
    /\ IsSentence(lexer.tokens)
    /\ lexer.tokens[1].type = "KEYWORD_UPDATE"
    /\ \E i \in DOMAIN lexer.tokens : lexer.tokens[i].type = "KEYWORD_WHERE"

\* a SELECT of a name and a DELETE were parsed
C24_WitnessSelect ==
    /\ parser # Null
    /\ IsSentence(lexer.tokens)
    /\ lexer.tokens[1].type = "KEYWORD_SELECT"
    /\ lexer.tokens[2].type = "IDENTIFIER"

C24_WitnessDelete ==
    /\ parser # Null
    /\ IsSentence(lexer.tokens)
    /\ lexer.tokens[1].type = "KEYWORD_DELETE"

\* statements the grammar does not have are among the token sequences parsed
C24_WitnessNoSentence ==
    /\ parser # Null
    /\ ~IsSentence(lexer.tokens)
    /\ parser.errors = <<>>

\* The kinds of token that may come next after a part of a statement: the
\* place reached in the grammar after one more token of kind k at place s,
\* "none" if the grammar has no such token there.
After(s, k) ==
    CASE s = "statement" ->
            (CASE k = "KEYWORD_SELECT" -> "select"
               [] k = "KEYWORD_INSERT" -> "insert"
               [] k = "KEYWORD_UPDATE" -> "update"
               [] k = "KEYWORD_DELETE" -> "delete"
               [] OTHER -> "none")
      [] s = "select" ->
            (CASE k = "OP_STAR" -> "star"
               [] k = "IDENTIFIER" -> "column"
               [] OTHER -> "none")
      [] s = "star" -> IF k = "KEYWORD_FROM" THEN "from" ELSE "none"
      [] s = "column" ->
            (CASE k = "OP_COMMA" -> "comma"
               [] k = "KEYWORD_FROM" -> "from"
               [] OTHER -> "none")
      [] s = "comma" -> IF k = "IDENTIFIER" THEN "column" ELSE "none"
      [] s = "delete" -> IF k = "KEYWORD_FROM" THEN "from" ELSE "none"
      [] s = "from" -> IF k = "IDENTIFIER" THEN "tail" ELSE "none"
      [] s = "tail" ->
            (CASE k = "KEYWORD_WHERE" -> "where"
               [] k = "OP_SEMICOLON" -> "end"
               [] OTHER -> "none")
      [] s = "where" -> IF k = "IDENTIFIER" THEN "left" ELSE "none"
      [] s = "left" -> IF k \in RelOpKinds THEN "relop" ELSE "none"
      [] s = "relop" -> IF k \in ValueKinds THEN "right" ELSE "none"
      [] s = "right" -> IF k = "OP_SEMICOLON" THEN "end" ELSE "none"
      [] s = "insert" -> IF k = "KEYWORD_INTO" THEN "into" ELSE "none"
      [] s = "into" -> IF k = "IDENTIFIER" THEN "target" ELSE "none"
      [] s = "target" -> IF k = "OP_LPAREN" THEN "columns" ELSE "none"
      [] s = "columns" -> IF k = "IDENTIFIER" THEN "incolumn" ELSE "none"
      [] s = "incolumn" ->
            (CASE k = "OP_COMMA" -> "columns"
               [] k = "OP_RPAREN" -> "listed"
               [] OTHER -> "none")
      [] s = "listed" -> IF k = "KEYWORD_VALUES" THEN "values" ELSE "none"
      [] s = "values" -> IF k = "OP_LPAREN" THEN "invalues" ELSE "none"
      [] s = "invalues" -> IF k \in ValueKinds THEN "value" ELSE "none"
      [] s = "value" ->
            (CASE k = "OP_COMMA" -> "invalues"
               [] k = "OP_RPAREN" -> "right"
               [] OTHER -> "none")
      [] s = "update" -> IF k = "IDENTIFIER" THEN "updated" ELSE "none"
      [] s = "updated" -> IF k = "KEYWORD_SET" THEN "set" ELSE "none"
      [] s = "set" -> IF k = "IDENTIFIER" THEN "assigned" ELSE "none"
      [] s = "assigned" -> IF k = "OP_EQUALS" THEN "to" ELSE "none"
      [] s = "to" -> IF k \in ValueKinds THEN "tail" ELSE "none"
      [] OTHER -> "none"

RECURSIVE FirstViolation(_, _, _)
\* the index of the first token, from token i at place s on, that the grammar
\* does not have there; 0 if the statement ends before such a token
FirstViolation(toks, i, s) ==
    IF s = "end" THEN 0
    ELSE IF After(s, toks[i].type) = "none" THEN i
    ELSE FirstViolation(toks, i + 1, After(s, toks[i].type))

\* diagnostic e is anchored at token t and quotes its text
AnchoredAt(e, t) ==
    /\ e.line = t.line
    /\ e.column = t.column
    /\ e.message.args = <<t.value>>

\* C25: every syntax diagnostic is anchored at the current token: its line
\* and column are those of the first token not consumed when the violation is
\* detected and its message carries the text of that token; at the end of
\* input it is anchored at the end-of-input token with an empty text.  The
\* first diagnostic is at the first token the grammar does not allow, every
\* later one at a token from there on and not beyond the final cursor.
C25_AnchoredAtCurrent ==
    (parser # Null /\ parser.errors # <<>>) =>
        LET toks == lexer.tokens
            first == FirstViolation(toks, 1, "statement")
        IN  /\ first # 0
            /\ AnchoredAt(parser.errors[1], toks[first])
            /\ \A n \in DOMAIN parser.errors :
                 /\ parser.errors[n].type = "SYNTAX_ERROR"
                 /\ \E i \in first .. parser.current + 1 :
                      AnchoredAt(parser.errors[n], toks[i])
            /\ \A n \in 2 .. Len(parser.errors) :
                 \E i, j \in first .. parser.current + 1 :
                    /\ i <= j
                    /\ AnchoredAt(parser.errors[n - 1], toks[i])
                    /\ AnchoredAt(parser.errors[n], toks[j])
            /\ toks[first].type = "END_OF_INPUT" =>
                    parser.errors[1].message.args = << <<>> >>

\* a violation was detected at a token in the middle of the text, after
\* tokens had been consumed
C25_Witness ==
    /\ parser # Null
    /\ parser.errors # <<>>
    /\ FirstViolation(lexer.tokens, 1, "statement") \in 2 .. Len(lexer.tokens) - 1

\* a violation was detected at the end of input
C25_WitnessEndOfInput ==
    /\ parser # Null
    /\ parser.errors # <<>>
    /\ Len(lexer.tokens) > 1
    /\ FirstViolation(lexer.tokens, 1, "statement") = Len(lexer.tokens)

\* two diagnostics at two tokens
C25_WitnessTwo ==
    /\ parser # Null
    /\ Len(parser.errors) > 1
    /\ parser.errors[1].column # parser.errors[2].column

(***************************************************************************)
(* C26, C27: semantic analysis, continued                                  *)
(***************************************************************************)
\* the diagnostic names the table reference and then lists the tables of the
\* catalog, each once
ListsKnownTables(e, tree) ==
    /\ e.message.text = "Table '%' does not exist. Available tables: %"
    /\ e.message.args[1] \in TableRefs(tree)
    /\ Len(e.message.args) = 1 + Cardinality(CatalogNames)
    /\ { e.message.args[i] : i \in 2 .. Len(e.message.args) } = CatalogNames

\* C26: for every statement kind (SELECT, INSERT, UPDATE, DELETE) the
\* table-does-not-exist diagnostic lists the known tables of the catalog.
C26_TableDiagnosticListsTables ==
    (AnalysisDone /\ ~Resolves(parseTree)) =>
        /\ semanticAnalyzer.errors # <<>>
        /\ ListsKnownTables(semanticAnalyzer.errors[1], parseTree)

\* the part of C26 that holds: the diagnostic of a SELECT and of a DELETE
\* lists the tables
C26_SelectDeleteListTables ==
    (AnalysisDone /\ ~Resolves(parseTree)
        /\ parseTree.type \in {"QUERY", "DELETE_QUERY"}) =>
        /\ semanticAnalyzer.errors # <<>>
        /\ ListsKnownTables(semanticAnalyzer.errors[1], parseTree)

\* a DELETE from an unknown table was analysed
C26_WitnessDelete ==
    /\ AnalysisDone
    /\ ~Resolves(parseTree)
    /\ parseTree.type = "DELETE_QUERY"

\* an INSERT into, and an UPDATE of, an unknown table: the diagnostic has the
\* table reference and nothing else
C26_WitnessInsert ==
    /\ AnalysisDone
    /\ ~Resolves(parseTree)
    /\ parseTree.type = "INSERT_QUERY"
    /\ semanticAnalyzer.errors[1].message = Msg("Table '%' does not exist.", <<wnosuch>>)

C26_WitnessUpdate ==
    /\ AnalysisDone
    /\ ~Resolves(parseTree)
    /\ parseTree.type = "UPDATE_QUERY"
    /\ semanticAnalyzer.errors[1].message = Msg("Table '%' does not exist.", <<wnosuch>>)

\* the column references under the last child of the given kind of the tree
ClauseColumns(tree, kind) ==
    IF lastChildOf(tree, kind) = Null THEN <<>>
    ELSE ColumnRefs(lastChildOf(tree, kind), 0)

\* the column references that are no column of the table, as Offending has
\* them for a tree
OffendingOf(refs, table) ==
    SelectSeq(refs,
              LAMBDA c : /\ c # <<"*">>
                         /\ \A k \in DOMAIN table.columns :
                                table.columns[k].name # ToLowerStr(c))

\* the columns named by the column diagnostics of the list, in order
ColumnsReported(errs) ==
    LET sel == WithText(errs, ColumnErrorText)
    IN  [i \in DOMAIN sel |-> sel[i].message.args[1]]

\* C27: the validation order is fixed: in the semantic diagnostics of a
\* statement a table diagnostic comes before every other diagnostic, the
\* diagnostics of the select-list columns (SELECT) or of the assignment target
\* (UPDATE) come before the diagnostic of the WHERE column, and no column is
\* validated before the table is resolved: every column diagnostic names the
\* resolved table and none reports a missing table context.
C27_ValidationOrder ==
    AnalysisDone =>
        LET errs == semanticAnalyzer.errors
        IN  /\ \A i \in DOMAIN errs :
                 /\ errs[i].message.text \in TableErrorTexts => i = 1
                 /\ errs[i].message.text # "No table context for column validation"
                 /\ errs[i].message.text = ColumnErrorText =>
                        /\ Resolves(parseTree)
                        /\ semanticAnalyzer.currentTable = ResolvedTable(parseTree).name
                        /\ errs[i].message.args[2] = semanticAnalyzer.currentTable
            /\ (Resolves(parseTree) /\ parseTree.type \in {"QUERY", "UPDATE_QUERY"}) =>
                 ColumnsReported(errs) =
                    OffendingOf(ClauseColumns(parseTree,
                                    IF parseTree.type = "QUERY" THEN "SELECT_CLAUSE"
                                    ELSE "SET_CLAUSE"),
                                ResolvedTable(parseTree))
                    \o OffendingOf(ClauseColumns(parseTree, "WHERE_CLAUSE"),
                                   ResolvedTable(parseTree))

\* a SELECT with an unknown column in its list and another in its WHERE
\* clause was analysed
C27_Witness ==
    /\ AnalysisDone
    /\ parseTree.type = "QUERY"
    /\ ColumnsReported(semanticAnalyzer.errors) = <<wghost, wnosuch>>

\* the same for an UPDATE
C27_WitnessUpdate ==
    /\ AnalysisDone
    /\ parseTree.type = "UPDATE_QUERY"
    /\ ColumnsReported(semanticAnalyzer.errors) = <<wghost, wnosuch>>

\* a table diagnostic for a statement with an unknown column
C27_WitnessTable ==
    /\ AnalysisDone
    /\ ~Resolves(parseTree)
    /\ wghost \in { ColumnRefs(parseTree, 0)[i] : i \in DOMAIN ColumnRefs(parseTree, 0) }
    /\ semanticAnalyzer.errors[1].message.text \in TableErrorTexts

\* C28: for every token sequence that ends with the end-of-input token,
\* during parse() the cursor stays within the sequence, the end-of-input token
\* is never consumed (the cursor never moves past it), the cursor never moves
\* backwards, and previous(), which advance() reads after it has moved, is
\* read only with the cursor at 1 or more.
C28_CursorSafety ==
    parser # Null =>
        LET n == Len(parser.tokens)
            moves == parser.moves
        IN  /\ parser.tokens[n].type = "END_OF_INPUT"
            /\ parser.current \in 0 .. n - 1
            /\ \A i \in DOMAIN moves :
                 /\ moves[i].from \in 0 .. n - 1
                 /\ moves[i].to \in 1 .. n - 1
                 /\ moves[i].from <= moves[i].to
                 /\ moves[i].from = (IF i = 1 THEN 0 ELSE moves[i - 1].to)
            /\ parser.current = (IF moves = <<>> THEN 0 ELSE moves[Len(moves)].to)

\* a violation was detected at the end of input after the cursor had moved
\* over every other token
C28_Witness ==
    /\ parser # Null
    /\ Len(parser.tokens) > 4
    /\ parser.current = Len(parser.tokens) - 1
    /\ Len(parser.moves) = Len(parser.tokens) - 1
    /\ parser.errors # <<>>

\* the first token is no statement: the cursor stays at 0 and advance() is
\* not called
C28_WitnessNoMove ==
    /\ parser # Null
    /\ parser.current = 0
    /\ parser.moves = <<>>
    /\ parser.errors # <<>>

\* a statement was parsed to its ';' and tokens after it were left alone
C28_WitnessTrailing ==
    /\ parser # Null
    /\ parser.errors = <<>>
    /\ parser.current < Len(parser.tokens) - 1

NoTreeText == "No parse tree to analyze"

\* C29: for every token sequence ending with end of input, if parse()
\* returns a null root then it has recorded at least one syntax diagnostic; so
\* compileAndExecute never hands the semantic analyzer a null tree, and the
\* diagnostic "No parse tree to analyze" is recorded by no call.
C29_NoSilentParseFailure ==
    /\ (parser # Null /\ parseTree = Null) => parser.errors # <<>>
    /\ semanticAnalyzer # Null =>
          /\ parseTree # Null
          /\ syntaxValid
          /\ WithText(semanticAnalyzer.errors, NoTreeText) = <<>>
    /\ WithText(errorHandler, NoTreeText) = <<>>

\* parse() returned a null root from inside a WHERE clause
C29_Witness ==
    /\ parser # Null
    /\ parseTree = Null
    /\ parser.errors # <<>>
    /\ \E i \in 1 .. parser.current : parser.tokens[i].type = "KEYWORD_WHERE"

\* a statement without WHERE clause reached the semantic analyzer
C29_WitnessAnalyzed ==
    /\ semanticAnalyzer # Null
    /\ parseTree # Null
    /\ \A i \in DOMAIN parser.tokens : parser.tokens[i].type # "KEYWORD_WHERE"

(***************************************************************************)
(* C30: the rows of the data store                                         *)
(***************************************************************************)
\* the column names the catalog declares for the table
DeclaredColumns(tableName) ==
    { getTable(tableName).columns[i].name : i \in DOMAIN getTable(tableName).columns }

\* the keys of the rows stored for the table
StoredKeys(store, tableName) ==
    UNION { DOMAIN store[tableName].rows[i] : i \in DOMAIN store[tableName].rows }

\* C30: after any sequence of statements processed by compileAndExecute,
\* every row stored for a table has as keys only column names the catalog
\* declares for that table, also after an INSERT or UPDATE that passed
\* semantic analysis with a column name in another letter case or listed more
\* than once.
C30_RowsMatchSchema ==
    \A n \in DOMAIN globalDataStore :
        StoredKeys(globalDataStore, n) \subseteq DeclaredColumns(n)

\* what holds in place of C30: every key is, apart from the case of its
\* letters, a declared column of the table
C30_KeysDeclaredIgnoringCase ==
    \A n \in DOMAIN globalDataStore :
        { ToLowerStr(k) : k \in StoredKeys(globalDataStore, n) }
            \subseteq DeclaredColumns(n)

\* an INSERT with a column in upper case was executed and its row is stored
C30_WitnessInsert ==
    /\ pc = "returned"
    /\ executed # Null
    /\ executed.success
    /\ parseTree.type = "INSERT_QUERY"
    /\ wID \in StoredKeys(globalDataStore, wusers)

\* an UPDATE with its target in upper case has changed a row
C30_WitnessUpdate ==
    /\ pc = "returned"
    /\ executed # Null
    /\ executed.affectedRows = 1
    /\ parseTree.type = "UPDATE_QUERY"
    /\ ToUpperStr(wage) \in StoredKeys(globalDataStore, wusers)

\* an INSERT with a column listed twice has stored a row of the one column
C30_WitnessTwice ==
    /\ pc = "returned"
    /\ executed # Null
    /\ executed.success
    /\ \E i \in DOMAIN globalDataStore[wusers].rows :
          globalDataStore[wusers].rows[i] = Row(<<wid>>, << <<"8">> >>)

====
